---- MODULE Spec2Model ----
(***************************************************************************)
(* A model of the tapplet execution hosts of tari-tapplet-lib              *)
(* (src/src/host.rs): WasmTappletHost and LuaTappletHost, their allowlist  *)
(* check, and the value bridges between serde_json::Value and the native   *)
(* values of wasmer and mlua.                                              *)
(***************************************************************************)
EXTENDS Integers, Sequences, FiniteSets, TLC

(***************************************************************************)
(* Wide integers.  i64 and u64 values do not fit the model checker's       *)
(* integers, so an integer is kept in sign-magnitude form with three       *)
(* decimal limbs: W(neg, a, b, c) is +/-(a*10^18 + b*10^9 + c).            *)
(***************************************************************************)
Limb == 10^9

W(neg, a, b, c) == [neg |-> neg /\ <<a, b, c>> # <<0, 0, 0>>, d |-> <<a, b, c>>]

Small(n) == IF n < 0 THEN W(TRUE, 0, 0, 0 - n) ELSE W(FALSE, 0, 0, n)

MagLess(p, q) ==
    \/ p[1] < q[1]
    \/ p[1] = q[1] /\ p[2] < q[2]
    \/ p[1] = q[1] /\ p[2] = q[2] /\ p[3] < q[3]

MagAdd(p, q) ==
    LET c3 == p[3] + q[3]
        k3 == IF c3 >= Limb THEN 1 ELSE 0
        c2 == p[2] + q[2] + k3
        k2 == IF c2 >= Limb THEN 1 ELSE 0
    IN  <<p[1] + q[1] + k2, c2 - k2 * Limb, c3 - k3 * Limb>>

\* p - q for p >= q
MagSub(p, q) ==
    LET c3 == p[3] - q[3]
        k3 == IF c3 < 0 THEN 1 ELSE 0
        c2 == p[2] - q[2] - k3
        k2 == IF c2 < 0 THEN 1 ELSE 0
    IN  <<p[1] - q[1] - k2, c2 + k2 * Limb, c3 + k3 * Limb>>

FromMag(neg, m) == W(neg, m[1], m[2], m[3])

WLess(x, y) ==
    IF x.neg # y.neg THEN x.neg
    ELSE IF x.neg THEN MagLess(y.d, x.d) ELSE MagLess(x.d, y.d)

WLeq(x, y) == x = y \/ WLess(x, y)

WAdd(x, y) ==
    IF x.neg = y.neg THEN FromMag(x.neg, MagAdd(x.d, y.d))
    ELSE IF MagLess(x.d, y.d) THEN FromMag(y.neg, MagSub(y.d, x.d))
    ELSE FromMag(x.neg, MagSub(x.d, y.d))

I32_MAX == W(FALSE, 0, 2, 147483647)
I32_MIN == W(TRUE, 0, 2, 147483648)
I64_MAX == W(FALSE, 9, 223372036, 854775807)
I64_MIN == W(TRUE, 9, 223372036, 854775808)
Two64 == W(FALSE, 18, 446744073, 709551616)

\* two's-complement wrap of a sum of two i64 values
Wrap64(x) ==
    IF WLess(I64_MAX, x) THEN WAdd(x, FromMag(TRUE, Two64.d))
    ELSE IF WLess(x, I64_MIN) THEN WAdd(x, Two64)
    ELSE x

(***************************************************************************)
(* Floating-point values (f32 and f64): a finite value num/den with den 1  *)
(* or 2 (so that 1.5 and 2.0 are both there), NaN, or an infinity.         *)
(***************************************************************************)
Fin(num, den) == [k |-> "fin", num |-> num, den |-> den]
NaN == [k |-> "nan"]
Inf(neg) == [k |-> "inf", neg |-> neg]

None == [some |-> FALSE]
Some(x) == [some |-> TRUE, v |-> x]

Ok(v) == [ok |-> TRUE, val |-> v]
Err(kind, msg) == [ok |-> FALSE, kind |-> kind, msg |-> msg]

\* the result of a run that has not returned
Pending == [ok |-> FALSE, kind |-> "pending", msg |-> ""]

(***************************************************************************)
(* serde_json::Value.  A Number is an integer (serde_json's PosInt(u64) or *)
(* NegInt(i64)) or a Float(f64); the two kinds are never equal, as in      *)
(* serde_json.  A Map is a function on its set of keys.                    *)
(***************************************************************************)
NInt(w) == [k |-> "int", v |-> w]
NFloat(f) == [k |-> "float", f |-> f]

JNull == [t |-> "null"]
JBool(b) == [t |-> "bool", b |-> b]
JNumber(n) == [t |-> "number", n |-> n]
JInt(w) == JNumber(NInt(w))
JFloat(f) == JNumber(NFloat(f))
JString(s) == [t |-> "string", s |-> s]
JArray(items) == [t |-> "array", items |-> items]
JObject(m) == [t |-> "object", m |-> m]

\* Number::as_i64: Some for an integer that fits i64, None for a u64 above
\* i64::MAX and for every Float.
as_i64(n) == IF n.k = "int" /\ WLeq(n.v, I64_MAX) THEN Some(n.v) ELSE None

\* Number::as_f64: always Some.  The integers the model converts this way
\* are exactly representable (2^63), so `as f64` does not round.
as_f64(n) == IF n.k = "int" THEN Some(Fin(n.v, 1)) ELSE Some(n.f)

\* Number::from_f64: None for NaN and the infinities.
from_f64(f) == IF f.k = "fin" THEN Some(NFloat(f)) ELSE None

\* Number: From<i32>, From<i64>
NumberFromInt(i) == NInt(i)

\* The keys a Map of the model may have, in serde_json::Map's iteration
\* order (a BTreeMap: ascending byte order).
KeyOrder == <<"1", "2", "a", "b", "c">>

KeyIndex(key) == CHOOSE i \in 1..Len(KeyOrder) : KeyOrder[i] = key

RECURSIVE SortedKeys(_)
SortedKeys(S) ==
    IF S = {} THEN <<>>
    ELSE LET first == CHOOSE key \in S : \A o \in S : KeyIndex(key) <= KeyIndex(o)
         IN  <<first>> \o SortedKeys(S \ {first})

\* `for (_key, value) in obj`
ObjectValues(m) == LET keys == SortedKeys(DOMAIN m)
                   IN  [i \in 1..Len(keys) |-> m[keys[i]]]

(***************************************************************************)
(* wasmer::Value                                                           *)
(***************************************************************************)
I32(v) == [t |-> "I32", v |-> v]
I64(v) == [t |-> "I64", v |-> v]
F32(f) == [t |-> "F32", f |-> f]
F64(f) == [t |-> "F64", f |-> f]
FuncRef == [t |-> "FuncRef"]
ExternRef == [t |-> "ExternRef"]
V128 == [t |-> "V128"]

\* a bug: a string is passed as a null pointer instead of being refused
json_value_to_wasm_StringAsPointer(value) ==
    CASE value.t = "number" ->
            IF as_i64(value.n).some THEN Ok(I64(as_i64(value.n).v))
            ELSE IF as_f64(value.n).some THEN Ok(F64(as_f64(value.n).v))
            ELSE Err("InvalidArguments", "Unsupported number type")
      [] value.t = "bool" -> Ok(I32(IF value.b THEN Small(1) ELSE Small(0)))
      [] value.t = "string" -> Ok(I32(Small(0)))
      [] OTHER -> Err("InvalidArguments", "Unsupported argument type")

\* a bug: a boolean is widened to the integer type of the numbers
json_value_to_wasm_BoolAsI64(value) ==
    CASE value.t = "number" ->
            IF as_i64(value.n).some THEN Ok(I64(as_i64(value.n).v))
            ELSE IF as_f64(value.n).some THEN Ok(F64(as_f64(value.n).v))
            ELSE Err("InvalidArguments", "Unsupported number type")
      [] value.t = "bool" -> Ok(I64(IF value.b THEN Small(1) ELSE Small(0)))
      [] value.t = "string" ->
            Err("InvalidArguments",
                "String arguments require memory management - not yet implemented")
      [] OTHER -> Err("InvalidArguments", "Unsupported argument type")

\* WasmTappletHost::json_value_to_wasm
json_value_to_wasm(value) ==
    CASE value.t = "number" ->
            IF as_i64(value.n).some THEN Ok(I64(as_i64(value.n).v))
            ELSE IF as_f64(value.n).some THEN Ok(F64(as_f64(value.n).v))
            ELSE Err("InvalidArguments", "Unsupported number type")
      [] value.t = "bool" -> Ok(I32(IF value.b THEN Small(1) ELSE Small(0)))
      [] value.t = "string" ->
            Err("InvalidArguments",
                "String arguments require memory management - not yet implemented")
      [] OTHER -> Err("InvalidArguments", "Unsupported argument type")

\* `for x in xs { out.push(convert(x)?) }`: the converted values in order,
\* or the error of the first element that fails.
RECURSIVE TryMap(_, _)
TryMap(rs, acc) ==
    IF rs = <<>> THEN Ok(acc)
    ELSE IF ~Head(rs).ok THEN Head(rs)
    ELSE TryMap(Tail(rs), Append(acc, Head(rs).val))

\* the sequence backwards
Reverse(q) == [i \in 1..Len(q) |-> q[Len(q) + 1 - i]]

\* a bug: the values of a map are taken in the reverse of its iteration order
json_to_wasm_args_MapReversed(args) ==
    CASE args.t = "array" ->
            TryMap([i \in 1..Len(args.items) |-> json_value_to_wasm(args.items[i])], <<>>)
      [] args.t = "object" ->
            LET vals == Reverse(ObjectValues(args.m))
            IN  TryMap([i \in 1..Len(vals) |-> json_value_to_wasm(vals[i])], <<>>)
      [] OTHER ->
            TryMap(<<json_value_to_wasm(args)>>, <<>>)

\* WasmTappletHost::json_to_wasm_args
json_to_wasm_args(args) ==
    CASE args.t = "array" ->
            TryMap([i \in 1..Len(args.items) |-> json_value_to_wasm(args.items[i])], <<>>)
      [] args.t = "object" ->
            LET vals == ObjectValues(args.m)
            IN  TryMap([i \in 1..Len(vals) |-> json_value_to_wasm(vals[i])], <<>>)
      [] OTHER ->
            TryMap(<<json_value_to_wasm(args)>>, <<>>)

\* a bug: a value of an unsupported kind becomes null instead of an error
wasm_value_to_json_NullForUnsupported(value) ==
    CASE value.t = "I32" -> Ok(JNumber(NumberFromInt(value.v)))
      [] value.t = "I64" -> Ok(JNumber(NumberFromInt(value.v)))
      [] value.t = "F32" ->
            IF from_f64(value.f).some THEN Ok(JNumber(from_f64(value.f).v))
            ELSE Err("ExecutionError", "Failed to convert F32 to JSON number")
      [] value.t = "F64" ->
            IF from_f64(value.f).some THEN Ok(JNumber(from_f64(value.f).v))
            ELSE Err("ExecutionError", "Failed to convert F64 to JSON number")
      [] OTHER -> Ok(JNull)

\* WasmTappletHost::wasm_value_to_json
wasm_value_to_json(value) ==
    CASE value.t = "I32" -> Ok(JNumber(NumberFromInt(value.v)))
      [] value.t = "I64" -> Ok(JNumber(NumberFromInt(value.v)))
      [] value.t = "F32" ->
            IF from_f64(value.f).some THEN Ok(JNumber(from_f64(value.f).v))
            ELSE Err("ExecutionError", "Failed to convert F32 to JSON number")
      [] value.t = "F64" ->
            IF from_f64(value.f).some THEN Ok(JNumber(from_f64(value.f).v))
            ELSE Err("ExecutionError", "Failed to convert F64 to JSON number")
      [] OTHER -> Err("ExecutionError", "Unsupported WASM value type")

\* a bug: a single result is wrapped in a list like several
wasm_results_to_json_AlwaysList(results) ==
    IF results = <<>> THEN Ok(JNull)
    ELSE LET r == TryMap([i \in 1..Len(results) |-> wasm_value_to_json(results[i])], <<>>)
         IN  IF r.ok THEN Ok(JArray(r.val)) ELSE r

\* WasmTappletHost::wasm_results_to_json
wasm_results_to_json(results) ==
    IF results = <<>> THEN Ok(JNull)
    ELSE IF Len(results) = 1 THEN wasm_value_to_json(results[1])
    ELSE LET r == TryMap([i \in 1..Len(results) |-> wasm_value_to_json(results[i])], <<>>)
         IN  IF r.ok THEN Ok(JArray(r.val)) ELSE r

(***************************************************************************)
(* mlua::Value and the values of the Luau interpreter.  The interpreter    *)
(* has one number type, the double: mlua pushes an Integer as a double and *)
(* reads a double back as an Integer when it is integral and fits i32.  A  *)
(* table holds interpreter values, in three parts: integer keys (ik),      *)
(* string keys (sk) and keys of any other kind (xk).                       *)
(***************************************************************************)
LNil == [t |-> "nil"]
LBoolean(b) == [t |-> "boolean", b |-> b]
LInteger(i) == [t |-> "integer", i |-> i]
LNumber(f) == [t |-> "number", f |-> f]
LString(s) == [t |-> "string", s |-> s]
LTable(ik, sk, xk) == [t |-> "table", ik |-> ik, sk |-> sk, xk |-> xk]
LFunction(f) == [t |-> "function", f |-> f]
LUserData == [t |-> "userdata"]

EmptyTable == LTable(<<>>, <<>>, <<>>)

InI32(i) == WLeq(I32_MIN, i) /\ WLeq(i, I32_MAX)

\* IntoLua: the value as the interpreter holds it
ToLua(v) == IF v.t = "integer" THEN LNumber(Fin(v.i, 1)) ELSE v

\* FromLua: the interpreter's value as mlua hands it to Rust
FromLua(v) ==
    IF v.t = "number" /\ v.f.k = "fin" /\ v.f.den = 1 /\ InI32(v.f.num)
    THEN LInteger(v.f.num)
    ELSE v

Put(f, key, v) == [x \in DOMAIN f \cup {key} |-> IF x = key THEN v ELSE f[x]]
Del(f, key) == [x \in DOMAIN f \ {key} |-> f[x]]

\* Table::set(i, value) with an integer key: storing nil removes the key
TableSetInt(table, i, value) ==
    IF value.t = "nil" THEN [table EXCEPT !.ik = Del(@, i)]
    ELSE [table EXCEPT !.ik = Put(@, i, ToLua(value))]

\* Table::set(key, value) with a string key
TableSetStr(table, key, value) ==
    IF value.t = "nil" THEN [table EXCEPT !.sk = Del(@, key)]
    ELSE [table EXCEPT !.sk = Put(@, key, ToLua(value))]

\* Table::get(i)
TableGetInt(table, i) == IF i \in DOMAIN table.ik THEN FromLua(table.ik[i]) ELSE LNil

\* Table::len(): the length operator yields a border of the table, some n
\* with t[n+1] = nil and (n = 0 or t[n] ~= nil); which one is not specified
\* when the integer keys have holes.
Borders(table) ==
    {n \in {0} \cup DOMAIN table.ik :
        /\ n >= 0
        /\ n + 1 \notin DOMAIN table.ik
        /\ (n = 0 \/ n \in DOMAIN table.ik)}

RECURSIVE json_to_lua_value(_), ArrayToTable(_, _, _), ObjectToTable(_, _, _)

\* a bug: the items are stored from key 0 (`table.set(i, ..)`)
ArrayToTable_ZeroBased(arr, i, table) ==
    IF i > Len(arr) THEN Ok(table)
    ELSE LET lua_value == json_to_lua_value(arr[i])
         IN  IF ~lua_value.ok THEN lua_value
             ELSE ArrayToTable(arr, i + 1, TableSetInt(table, i - 1, lua_value.val))

\* `for (i, item) in arr.iter().enumerate() { table.set(i + 1, convert(item)?) }`
\* from item i on
ArrayToTable(arr, i, table) ==
    IF i > Len(arr) THEN Ok(table)
    ELSE LET lua_value == json_to_lua_value(arr[i])
         IN  IF ~lua_value.ok THEN lua_value
             ELSE ArrayToTable(arr, i + 1, TableSetInt(table, i, lua_value.val))

\* `for (key, val) in obj { table.set(key.as_str(), convert(val)?) }`
ObjectToTable(obj, keys, table) ==
    IF keys = <<>> THEN Ok(table)
    ELSE LET lua_value == json_to_lua_value(obj[Head(keys)])
         IN  IF ~lua_value.ok THEN lua_value
             ELSE ObjectToTable(obj, Tail(keys),
                                TableSetStr(table, Head(keys), lua_value.val))

\* LuaTappletHost::json_to_lua_value
json_to_lua_value(value) ==
    CASE value.t = "null" -> Ok(LNil)
      [] value.t = "bool" -> Ok(LBoolean(value.b))
      [] value.t = "number" ->
            IF as_i64(value.n).some
            THEN IF WLeq(I32_MIN, as_i64(value.n).v) /\ WLeq(as_i64(value.n).v, I32_MAX)
                 THEN Ok(LInteger(as_i64(value.n).v))
                 ELSE Err("InvalidArguments", "Integer out of range for Lua")
            ELSE IF as_f64(value.n).some THEN Ok(LNumber(as_f64(value.n).v))
            ELSE Err("InvalidArguments", "Unsupported number type")
      [] value.t = "string" -> Ok(LString(value.s))
      [] value.t = "array" -> ArrayToTable(value.items, 1, EmptyTable)
      [] value.t = "object" -> ObjectToTable(value.m, SortedKeys(DOMAIN value.m), EmptyTable)

Digits == <<"0", "1", "2", "3", "4", "5", "6", "7", "8", "9">>

RECURSIVE NatToString(_)
NatToString(n) ==
    IF n < 10 THEN Digits[n + 1] ELSE NatToString(n \div 10) \o Digits[(n % 10) + 1]

\* i32::to_string
IntegerToString(i) ==
    (IF i.neg THEN "-" ELSE "") \o
    (IF i.d[2] = 0 THEN NatToString(i.d[3])
     ELSE NatToString(i.d[2]) \o
          SubSeq(NatToString(Limb + i.d[3]), 2, 10))

\* f64::to_string, for the floats a table key of the model can be: the
\* halves and the infinities (an integral double that fits i32 is read
\* back as an Integer key)
NumberToString(f) ==
    IF f.k = "inf" THEN (IF f.neg THEN "-inf" ELSE "inf")
    ELSE (IF f.num.neg THEN "-" ELSE "") \o
         NatToString(f.num.d[3] \div f.den) \o
         (IF f.den = 2 THEN ".5" ELSE "")

\* a bug: a key of any other kind is written out as well
TableKeyString_AnyKey(key) ==
    CASE key.t = "string" -> Ok(key.s)
      [] key.t = "integer" -> Ok(IntegerToString(key.i))
      [] key.t = "number" -> Ok(NumberToString(key.f))
      [] OTHER -> Ok(key.t)

\* the `match key` of lua_value_to_json
TableKeyString(key) ==
    CASE key.t = "string" -> Ok(key.s)
      [] key.t = "integer" -> Ok(IntegerToString(key.i))
      [] key.t = "number" -> Ok(NumberToString(key.f))
      [] OTHER -> Err("ExecutionError", "Unsupported table key type")

\* `table.pairs()`: the key/value pairs of a table, as mlua hands them over
TablePairs(table) ==
    {<<LInteger(Small(i)), FromLua(table.ik[i])>> : i \in DOMAIN table.ik}
    \cup {<<LString(key), FromLua(table.sk[key])>> : key \in DOMAIN table.sk}
    \cup {<<FromLua(key), FromLua(table.xk[key])>> : key \in DOMAIN table.xk}

RECURSIVE lua_value_to_json(_), ListOutcomes(_), MapOutcomes(_)

\* The results of converting vals[1], vals[2], ... in order, stopping at
\* the first error.
ListOutcomes(vals) ==
    IF vals = <<>> THEN {Ok(<<>>)}
    ELSE UNION {IF ~h.ok THEN {h}
                ELSE {IF r.ok THEN Ok(<<h.val>> \o r.val) ELSE r :
                        r \in ListOutcomes(Tail(vals))} :
                h \in lua_value_to_json(Head(vals))}

\* The `for pair in table.pairs()` loop.  The pairs come in an order the
\* interpreter chooses: the first pair that fails gives the error; two keys
\* with the same string form leave the value of the one that came last.
MapOutcomes(pairs) ==
    LET keyOf(p) == TableKeyString(p[1])
        failures == UNION {IF ~keyOf(p).ok THEN {keyOf(p)}
                           ELSE {r \in lua_value_to_json(p[2]) : ~r.ok} : p \in pairs}
        values(key) == UNION {{r.val : r \in {x \in lua_value_to_json(p[2]) : x.ok}} :
                              p \in {q \in pairs : keyOf(q).ok /\ keyOf(q).val = key}}
        keys == {keyOf(p).val : p \in {q \in pairs : keyOf(q).ok}}
        complete == \A p \in pairs :
                        keyOf(p).ok /\ \E r \in lua_value_to_json(p[2]) : r.ok
        maps == IF complete
                THEN {m \in [keys -> UNION {values(key) : key \in keys}] :
                        \A key \in keys : m[key] \in values(key)}
                ELSE {}
    IN  failures \cup {Ok(m) : m \in maps}

\* LuaTappletHost::lua_value_to_json: the set of results the conversion can
\* give (one, unless a table has holes or clashing keys).
lua_value_to_json(value) ==
    CASE value.t = "nil" -> {Ok(JNull)}
      [] value.t = "boolean" -> {Ok(JBool(value.b))}
      [] value.t = "integer" -> {Ok(JNumber(NumberFromInt(value.i)))}
      [] value.t = "number" ->
            {IF from_f64(value.f).some THEN Ok(JNumber(from_f64(value.f).v))
             ELSE Err("ExecutionError", "Failed to convert Lua number to JSON")}
      [] value.t = "string" -> {Ok(JString(value.s))}
      [] value.t = "table" ->
            UNION {IF len > 0
                   THEN {IF r.ok THEN Ok(JArray(r.val)) ELSE r :
                           r \in ListOutcomes([i \in 1..len |-> TableGetInt(value, i)])}
                   ELSE {IF r.ok THEN Ok(JObject(r.val)) ELSE r :
                           r \in MapOutcomes(TablePairs(value))} :
                   len \in Borders(value)}
      [] OTHER -> {Err("ExecutionError", "Unsupported Lua value type")}

(***************************************************************************)
(* The state.  One caller drives both hosts; `call`, `result`, `trace` and *)
(* `invoked` describe the most recent run: its host, method and arguments, *)
(* what it returned, the backend operations it performed in order, and the *)
(* invocations of extension functions it made with their native arguments. *)
(***************************************************************************)
VARIABLES
    loaded,     \* the artifact each existing host was loaded from: [wasm, lua],
                \* "" while the host does not exist
    wconfig,    \* WasmTappletHost.config (api.methods)
    lconfig,    \* LuaTappletHost.config (api.methods)
    call,       \* the most recent call: a run, [host, method, args], or a
                \* load, [host |-> "load", method |-> the constructor, args]
    result,     \* what that run returned; [ok |-> FALSE, kind |-> "pending"] while it runs
    trace,      \* backend operations of that run, in order
    invoked,    \* extension functions that run invoked: [fn, args, ret], ret
                \* being what the function returned
    lglobals,   \* the interpreter's global table: name -> value
    lstore,     \* the data appended through the capability handle (LuaTappletHost.api)
    lgen,       \* how many times the capability closures have been created
    lpc,        \* "idle"; "script" while the called script function runs;
                \* "capability" while a capability closure it called runs
    lframe,     \* the running script function: [fn, arg, ip]
    cframe,     \* the running capability closure: [op, args, pc, ok]
    runtime,    \* the asynchronous runtime whose task polls the run:
                \* [flavor, workers, core]
    inflight,   \* the handle's operations started and not yet resolved
    events,     \* the capability events of the most recent run, in order
    registry,   \* a TappletRegistry: [git_url, current_revision, tapplets,
                \* is_loaded]
    disk,       \* the file system: [cache, repos], whether cache_directory
                \* exists and the directories in it, by name
    remote,     \* the remote repository: [up, head]
    rcall,      \* the most recent call on the registry: [op, was, before,
                \* res, ops], was the registry and before the file system
                \* when it was made
    succeeded,  \* whether a load or a fetch of the registry has returned Ok
    folders,    \* the source folders of the local tapplets: [wasm, lua], the
                \* first [manifest, build], the second [manifest, lua_files]
    cache,      \* the directories of the cache directory, by name, each the
                \* files in it, by name, with the file each was copied from
    icall       \* the most recent install: [kind, before, res]

(***************************************************************************)
(* The compiled module of the model: what Instance::new yields for the     *)
(* loaded bytes.  Its exports, with the signature of each function.        *)
(***************************************************************************)
WasmExports ==
    [add    |-> [kind |-> "function", params |-> <<"I64", "I64">>],
     swap   |-> [kind |-> "function", params |-> <<"I64", "F64">>],
     flag   |-> [kind |-> "function", params |-> <<"I32">>],
     nop    |-> [kind |-> "function", params |-> <<>>],
     pair   |-> [kind |-> "function", params |-> <<>>],
     mixed  |-> [kind |-> "function", params |-> <<>>],
     nanf   |-> [kind |-> "function", params |-> <<>>],
     ref    |-> [kind |-> "function", params |-> <<>>],
     hidden |-> [kind |-> "function", params |-> <<>>],
     memory |-> [kind |-> "memory"]]

\* What each exported function computes.
WasmBody(name, a) ==
    CASE name = "add"    -> <<I64(Wrap64(WAdd(a[1].v, a[2].v)))>>
      [] name = "swap"   -> <<a[2], a[1]>>
      [] name = "flag"   -> <<a[1]>>
      [] name = "nop"    -> <<>>
      [] name = "pair"   -> <<I32(Small(7)), F32(Fin(Small(3), 2))>>
      [] name = "mixed"  -> <<I64(Small(1)), F64(Inf(FALSE)), I32(Small(2))>>
      [] name = "nanf"   -> <<F32(NaN)>>
      [] name = "ref"    -> <<ExternRef>>
      [] name = "hidden" -> <<I32(Small(1))>>

\* instance.exports.get_function(method): an error when there is no export
\* of that name or the export is not a function.
get_function(method) ==
    IF method \in DOMAIN WasmExports /\ WasmExports[method].kind = "function"
    THEN Ok(method)
    ELSE Err("ExportError", method)

\* Function::call: the arguments are checked against the signature (a
\* RuntimeError otherwise), then the function runs.
FuncCall(func, wasm_args) ==
    LET params == WasmExports[func].params
    IN  IF Len(wasm_args) = Len(params)
           /\ \A i \in 1..Len(params) : wasm_args[i].t = params[i]
        THEN Ok(WasmBody(func, wasm_args))
        ELSE Err("RuntimeError", "Parameters of type do not match signature")

\* ASCII lower case of the method names of the model
Lower(name) ==
    CASE name = "Add" -> "add"
      [] name = "Greet" -> "greet"
      [] OTHER -> name

\* a bug: the allowlist is matched without regard to case
AllowlistContains_IgnoreCase(methods, method) ==
    \E i \in 1..Len(methods) : Lower(methods[i]) = Lower(method)

\* `self.config.api.methods.contains(&method.to_string())`
AllowlistContains(methods, method) == \E i \in 1..Len(methods) : methods[i] = method

\* a bug: the lookup error is passed on as it is (`?`) instead of mapped
LookupError_Unmapped(method) == Err("ExecutionError", method)

\* `.map_err(|_| HostError::MethodNotFound(method.to_string()))` on the
\* lookup of the export or of the global
LookupError(method) == Err("MethodNotFound", method)

\* WasmTappletHost::run: the value returned, the backend operations
\* performed, and the invocations made.
WasmHostRun(method, args) ==
    IF ~AllowlistContains(wconfig.api.methods, method)
    THEN [res |-> Err("MethodNotFound", method), trace |-> <<>>, invoked |-> <<>>]
    ELSE
    LET func == get_function(method) IN
    IF ~func.ok
    THEN [res |-> LookupError(method),
          trace |-> <<"get_function">>, invoked |-> <<>>]
    ELSE
    LET wasm_args == json_to_wasm_args(args) IN
    IF ~wasm_args.ok
    THEN [res |-> wasm_args,
          trace |-> <<"get_function", "json_to_wasm_args">>, invoked |-> <<>>]
    ELSE
    LET results == FuncCall(func.val, wasm_args.val)
        inv == <<[fn |-> func.val, args |-> wasm_args.val, ret |-> results]>>
    IN
    IF ~results.ok
    THEN [res |-> Err("ExecutionError", results.msg),
          trace |-> <<"get_function", "json_to_wasm_args", "call">>, invoked |-> inv]
    ELSE [res |-> wasm_results_to_json(results.val),
          trace |-> <<"get_function", "json_to_wasm_args", "call", "wasm_results_to_json">>,
          invoked |-> inv]

(***************************************************************************)
(* The script of the model: what `lua.load(source).exec()` leaves in the   *)
(* globals, and what each function does when called.                       *)
(*   version = "1.0"                                                       *)
(*   function greet(name) return "Hello, " .. name end                     *)
(*   function echo(x) return x end                                         *)
(*   function save() minotari_append_data("profile", "x=1") return true end*)
(*   function clobber() minotari_append_data = 5 end                       *)
(*   function sync()                                                       *)
(*     minotari_append_data("profile", "x=1")                              *)
(*     minotari_load_data_entries("profile")                               *)
(*     return true                                                         *)
(*   end                                                                   *)
(*   function list() return {10, 20, x = 1} end                            *)
(*   function sparse() return {[5] = "e", [1.5] = true, name = "n"} end    *)
(*   function keyed() return {[true] = 1} end                              *)
(*   function empty() return {} end                                        *)
(*   function try()                                                        *)
(*     pcall(minotari_append_data, "profile", "x=1")                       *)
(*     return true                                                         *)
(*   end                                                                   *)
(*   function hidden() return 1 end                                        *)
(***************************************************************************)
ScriptFn(name) == LFunction([kind |-> "script", name |-> name])

\* the closure `create_function` makes for a capability: it owns a clone of
\* the host's handle; gen tells one creation from another
CapClosure(op, gen) == LFunction([kind |-> "capability", op |-> op, gen |-> gen])

LuaSource ==
    [version |-> LString("1.0"),
     greet   |-> ScriptFn("greet"),
     echo    |-> ScriptFn("echo"),
     save    |-> ScriptFn("save"),
     clobber |-> ScriptFn("clobber"),
     sync    |-> ScriptFn("sync"),
     list    |-> ScriptFn("list"),
     sparse  |-> ScriptFn("sparse"),
     keyed   |-> ScriptFn("keyed"),
     empty   |-> ScriptFn("empty"),
     try     |-> ScriptFn("try"),
     hidden  |-> ScriptFn("hidden")]

ScriptCode ==
    [greet   |-> <<[op |-> "return", expr |-> "hello"]>>,
     echo    |-> <<[op |-> "return", expr |-> "arg"]>>,
     save    |-> <<[op |-> "callglobal", name |-> "minotari_append_data",
                    args |-> <<"profile", "x=1">>],
                   [op |-> "return", expr |-> "true"]>>,
     clobber |-> <<[op |-> "setglobal", name |-> "minotari_append_data",
                    value |-> LNumber(Fin(Small(5), 1))],
                   [op |-> "return", expr |-> "nil"]>>,
     sync    |-> <<[op |-> "callglobal", name |-> "minotari_append_data",
                    args |-> <<"profile", "x=1">>],
                   [op |-> "callglobal", name |-> "minotari_load_data_entries",
                    args |-> <<"profile">>],
                   [op |-> "return", expr |-> "true"]>>,
     list    |-> <<[op |-> "return", expr |-> "list"]>>,
     sparse  |-> <<[op |-> "return", expr |-> "sparse"]>>,
     keyed   |-> <<[op |-> "return", expr |-> "keyed"]>>,
     empty   |-> <<[op |-> "return", expr |-> "empty"]>>,
     try     |-> <<[op |-> "pcallglobal", name |-> "minotari_append_data",
                    args |-> <<"profile", "x=1">>],
                   [op |-> "return", expr |-> "true"]>>,
     hidden  |-> <<[op |-> "return", expr |-> "one"]>>]

\* `"Hello, " .. name`: a string or a number is concatenated, anything else
\* raises a runtime error
Concat(prefix, v) ==
    CASE v.t = "string" -> Ok(LString(prefix \o v.s))
      [] v.t = "number" /\ v.f.k = "fin" /\ v.f.den = 1 /\ InI32(v.f.num) ->
            Ok(LString(prefix \o IntegerToString(v.f.num)))
      [] v.t = "number" -> Ok(LString(prefix \o NumberToString(v.f)))
      [] OTHER -> Err("LuaExecutionError", "attempt to concatenate")

\* a number of the script, as the interpreter holds it
Num(n) == LNumber(Fin(Small(n), 1))

\* the table a table constructor of the script builds
TableOf(expr) ==
    CASE expr = "list"   -> LTable(<<Num(10), Num(20)>>, [key \in {"x"} |-> Num(1)], <<>>)
      [] expr = "sparse" -> LTable([i \in {5} |-> LString("e")],
                                   [key \in {"name"} |-> LString("n")],
                                   [key \in {LNumber(Fin(Small(3), 2))} |-> LBoolean(TRUE)])
      [] expr = "keyed"  -> LTable(<<>>, <<>>, [key \in {LBoolean(TRUE)} |-> Num(1)])
      [] expr = "empty"  -> EmptyTable

\* the value of a return expression
Eval(expr, arg) ==
    CASE expr \in {"list", "sparse", "keyed", "empty"} -> Ok(TableOf(expr))
      [] expr = "arg"   -> Ok(arg)
      [] expr = "hello" -> Concat("Hello, ", arg)
      [] expr = "true"  -> Ok(LBoolean(TRUE))
      [] expr = "nil"   -> Ok(LNil)
      [] expr = "one"   -> Ok(LNumber(Fin(Small(1), 1)))

GetGlobal(name) == IF name \in DOMAIN lglobals THEN lglobals[name] ELSE LNil

\* `self.lua.globals().get::<mlua::Function>(method)`: an error unless the
\* global is a function
GetGlobalFunction(method) ==
    IF GetGlobal(method).t = "function" THEN Ok(GetGlobal(method))
    ELSE Err("FromLuaConversionError", method)

\* a bug: the capabilities are registered once, on the first run only
RegisterCapabilities_Once(globals, gen) ==
    IF "minotari_append_data" \in DOMAIN globals THEN globals
    ELSE Put(Put(globals, "minotari_append_data", CapClosure("append_data", gen)),
             "minotari_load_data_entries", CapClosure("load_data_entries", gen))

\* `globals().set("minotari_append_data", rust_append_data)` and
\* `globals().set("minotari_load_data_entries", rust_load_data_entries)`,
\* the closures being the ones this run created
RegisterCapabilities(globals, gen) ==
    Put(Put(globals, "minotari_append_data", CapClosure("append_data", gen)),
        "minotari_load_data_entries", CapClosure("load_data_entries", gen))

\* a bug: the items of a list are passed as so many arguments
CallArgs_Spread(lua_args) ==
    IF lua_args.t = "table" /\ lua_args.ik # <<>> /\ DOMAIN lua_args.ik = 1..Len(lua_args.ik)
    THEN lua_args.ik
    ELSE <<lua_args>>

\* `func.call(lua_args)` with lua_args: mlua::Value: the arguments of the
\* call are that one value
CallArgs(lua_args) == <<lua_args>>

\* the first parameter of a script function called with these arguments
FirstParameter(call_args) == IF call_args = <<>> THEN LNil ELSE ToLua(call_args[1])

\* a bug: the capabilities are registered before the argument is converted
LuaHostRunPrologue_RegistersFirst(method, args) ==
    IF ~AllowlistContains(lconfig.api.methods, method)
    THEN [enter |-> FALSE, res |-> Err("MethodNotFound", method), trace |-> <<>>,
          globals |-> lglobals]
    ELSE
    LET func == GetGlobalFunction(method) IN
    IF ~func.ok
    THEN [enter |-> FALSE, res |-> LookupError(method),
          trace |-> <<"globals.get">>, globals |-> lglobals]
    ELSE
    LET lua_args == json_to_lua_value(args) IN
    IF ~lua_args.ok
    THEN [enter |-> FALSE, res |-> lua_args,
          trace |-> <<"globals.get", "create_function", "create_function",
                      "globals.set", "globals.set", "json_to_lua_value">>,
          globals |-> RegisterCapabilities(lglobals, lgen + 1)]
    ELSE
        [enter |-> TRUE, res |-> Pending,
         trace |-> <<"globals.get", "json_to_lua_value",
                     "create_function", "create_function",
                     "globals.set", "globals.set", "call">>,
         func |-> func.val,
         lua_args |-> lua_args.val,
         globals |-> RegisterCapabilities(lglobals, lgen + 1)]

\* The part of LuaTappletHost::run before the script function is entered:
\* the value returned if it ends there, the backend operations performed,
\* and, when the call is reached, the function, its argument and the globals
\* as registered.
LuaHostRunPrologue(method, args) ==
    IF ~AllowlistContains(lconfig.api.methods, method)
    THEN [enter |-> FALSE, res |-> Err("MethodNotFound", method), trace |-> <<>>,
          globals |-> lglobals]
    ELSE
    LET func == GetGlobalFunction(method) IN
    IF ~func.ok
    THEN [enter |-> FALSE, res |-> LookupError(method),
          trace |-> <<"globals.get">>, globals |-> lglobals]
    ELSE
    LET lua_args == json_to_lua_value(args) IN
    IF ~lua_args.ok
    THEN [enter |-> FALSE, res |-> lua_args,
          trace |-> <<"globals.get", "json_to_lua_value">>, globals |-> lglobals]
    ELSE
        [enter |-> TRUE, res |-> Pending,
         trace |-> <<"globals.get", "json_to_lua_value",
                     "create_function", "create_function",
                     "globals.set", "globals.set", "call">>,
         func |-> func.val,
         lua_args |-> lua_args.val,
         globals |-> RegisterCapabilities(lglobals, lgen + 1)]

(***************************************************************************)
(* Loading.  The artifacts of the model: the compiled module and the       *)
(* script described above, and artifacts that cannot be loaded: the four   *)
(* bytes of the magic number alone, a module that imports a host function, *)
(* a module whose start function traps, a script with a syntax error and a *)
(* script whose top-level code raises an error.                            *)
(***************************************************************************)
Files ==
    [calc_wasm   |-> "module",
     bad_wasm    |-> "magic",
     linked_wasm |-> "imports",
     start_wasm  |-> "start_traps",
     greeter_lua |-> "script",
     syntax_lua  |-> "syntax_error",
     boom_lua    |-> "toplevel_error"]

\* std::fs::read, std::fs::read_to_string; the `?` makes the error an IoError
ReadFile(path) ==
    IF path \in DOMAIN Files THEN Ok(Files[path])
    ELSE Err("IoError", "No such file or directory (os error 2)")

\* a bug: the bytes are not validated
Module_new_Unchecked(bytes) == Ok(bytes)

\* Module::new(&store, bytes); the `?` makes the error a WasmCompileError
Module_new(bytes) ==
    IF bytes \in {"module", "imports", "start_traps"} THEN Ok(bytes)
    ELSE Err("WasmCompileError", "Validation error: unexpected end-of-file")

\* the host functions a module of the model needs to be given
Required(module) == IF module = "imports" THEN {"append_data"} ELSE {}

\* a bug: the capabilities are given to the compiled module
Imports_Capabilities == {"append_data", "load_data_entries"}

\* `wasmer::imports! {}`
Imports == {}

\* Instance::new(&mut store, &module, &imports); the `?` makes the error a
\* WasmInstantiationError
Instance_new(module, imports) ==
    IF ~(Required(module) \subseteq imports)
    THEN Err("WasmInstantiationError", "Error while importing: unknown import")
    ELSE IF module = "start_traps"
    THEN Err("WasmInstantiationError", "RuntimeError: unreachable")
    ELSE Ok(module)

\* WasmTappletHost::from_bytes: the host, or the error
WasmFromBytes(config, wasm_bytes) ==
    LET module == Module_new(wasm_bytes) IN
    IF ~module.ok THEN module
    ELSE LET instance == Instance_new(module.val, Imports)
         IN  IF ~instance.ok THEN instance
             ELSE Ok([config |-> config, instance |-> instance.val])

\* WasmTappletHost::new
WasmNew(config, wasm_path) ==
    LET wasm_bytes == ReadFile(wasm_path) IN
    IF ~wasm_bytes.ok THEN wasm_bytes
    ELSE LET module == Module_new(wasm_bytes.val) IN
         IF ~module.ok THEN module
         ELSE LET instance == Instance_new(module.val, Imports)
              IN  IF ~instance.ok THEN instance
                  ELSE Ok([config |-> config, instance |-> instance.val])

\* `lua.load(lua_code).exec().map_err(|e| HostError::LuaLoadError(..))`:
\* the globals the chunk leaves, or the error
LuaExec(lua_code) ==
    CASE lua_code = "script" -> Ok(LuaSource)
      [] lua_code = "toplevel_error" -> Err("LuaLoadError", "runtime error: boom")
      [] OTHER -> Err("LuaLoadError", "syntax error: unexpected symbol")

\* LuaTappletHost::from_string
LuaFromString(config, lua_code) ==
    LET globals == LuaExec(lua_code)
    IN  IF ~globals.ok THEN globals
        ELSE Ok([config |-> config, lua |-> globals.val, source |-> lua_code])

\* LuaTappletHost::new
LuaNew(config, lua_path) ==
    LET lua_code == ReadFile(lua_path) IN
    IF ~lua_code.ok THEN lua_code
    ELSE LET globals == LuaExec(lua_code.val)
         IN  IF ~globals.ok THEN globals
             ELSE Ok([config |-> config, lua |-> globals.val, source |-> lua_code.val])

\* a bug: config() builds a manifest instead of returning the host's
config_Default(host_config) == [name |-> host_config.name, api |-> [methods |-> <<>>]]

\* WasmTappletHost::config, LuaTappletHost::config: `&self.config`
config(host_config) == host_config

\* impl Display for HostError
Display(e) ==
    (CASE e.kind = "WasmLoadError" -> "WASM load error: "
       [] e.kind = "WasmCompileError" -> "WASM compile error: "
       [] e.kind = "WasmInstantiationError" -> "WASM instantiation error: "
       [] e.kind = "LuaLoadError" -> "Lua load error: "
       [] e.kind = "LuaExecutionError" -> "Lua execution error: "
       [] e.kind = "MethodNotFound" -> "Method not found: "
       [] e.kind = "ExecutionError" -> "Execution error: "
       [] e.kind = "InvalidArguments" -> "Invalid arguments: "
       [] e.kind = "IoError" -> "IO error: ") \o e.msg

(***************************************************************************)
(* Inputs.  The scalars cover both sides of every range the bridges test.  *)
(***************************************************************************)
MaxLen == 2
MaxDepth == 2
MaxRuns == 2

Two31 == W(FALSE, 0, 2, 147483648)
Two63 == W(FALSE, 9, 223372036, 854775808)

IntScalars ==
    {JInt(Small(2)), JInt(Small(3)), JInt(Small(-1)),
     JInt(I32_MAX), JInt(Two31), JInt(I32_MIN), JInt(WAdd(I32_MIN, Small(-1))),
     JInt(I64_MAX), JInt(Two63)}

Scalars ==
    IntScalars \cup
    {JNull, JBool(TRUE), JBool(FALSE),
     JFloat(Fin(Small(3), 2)), JFloat(Fin(Small(2), 1)), JString("World")}

\* the values used as elements of lists and maps
Elems == {JNull, JInt(Small(2)), JInt(Small(3)), JBool(TRUE),
          JFloat(Fin(Small(3), 2)), JString("World"), JInt(Two31)}

SeqsUpTo(S, n) == UNION {[1..k -> S] : k \in 0..n}

Arrays(S) == {JArray(items) : items \in SeqsUpTo(S, MaxLen)}

Objects(S) ==
    {JObject(m) : m \in UNION {[D -> S] : D \in {D \in SUBSET {"a", "b", "c"} :
                                                  Cardinality(D) <= MaxLen}}}

\* deeper values: a value put inside a list or a map, MaxDepth times over
Wraps(S) ==
    {JArray(<<v>>) : v \in S} \cup {JArray(<<JInt(Small(2)), v>>) : v \in S}
    \cup {JObject([key \in {"b"} |-> v]) : v \in S}

RECURSIVE Nested(_)
Nested(d) ==
    IF d = 0
    THEN {JString("World"), JInt(Two31), JInt(I32_MAX), JInt(Two63), JNull,
          JFloat(Fin(Small(2), 1)), JArray(<<>>), JObject(<<>>)}
    ELSE Nested(d - 1) \cup Wraps(Nested(d - 1))

TestArgs == Scalars \cup Arrays(Elems) \cup Objects(Elems) \cup Nested(MaxDepth)

WasmTestMethods ==
    {"add", "swap", "flag", "nop", "pair", "mixed", "nanf", "ref",
     "ghost", "memory", "Add", "hidden"}

LuaTestMethods ==
    {"greet", "echo", "save", "clobber", "sync", "list", "sparse", "keyed", "empty",
     "try", "ghost", "version", "hidden", "missing", "Greet"}

\* the script functions that do not look at their argument
NoArgMethods == {"save", "clobber", "sync", "list", "sparse", "keyed", "empty", "try"}

\* greet is not called with a number beyond the i32 range: the text the
\* interpreter prints for such a double is not modelled
LuaTestCalls ==
    {c \in LuaTestMethods \X TestArgs :
        /\ ~(c[1] = "greet" /\ c[2] = JInt(Two63))
        /\ c[1] \in NoArgMethods => c[2] \in {JNull, JString("World"), JInt(Two31)}}

\* The runtime whose task polls LuaTappletHost::run: tokio's multi-thread
\* scheduler with one or two workers, tokio's current-thread scheduler, or
\* an executor that is not tokio's.  core: the polling thread holds a
\* worker's core.
Runtime(flavor, workers, core) == [flavor |-> flavor, workers |-> workers, core |-> core]

Runtimes ==
    {Runtime("multi_thread", 1, TRUE), Runtime("multi_thread", 2, TRUE),
     Runtime("current_thread", 1, TRUE), Runtime("foreign", 0, FALSE)}

NoRuntime == Runtime("", 0, FALSE)

\* the workers of the runtime that can run other tasks and its drivers
FreeWorkers(rt) == rt.workers - (IF rt.core THEN 1 ELSE 0)

\* the runs of the scripting host: every call on a multi-thread runtime,
\* and the calls of some methods on each of the runtimes
BridgeRuns == {"save", "sync", "greet", "clobber", "try"} \X {JNull, JString("World")} \X Runtimes

LuaTestRuns ==
    {<<c[1], c[2], Runtime("multi_thread", 2, TRUE)>> : c \in LuaTestCalls} \cup BridgeRuns

WasmConfig ==
    [name |-> "calc",
     api |-> [methods |-> <<"add", "swap", "flag", "nop", "pair", "mixed", "nanf",
                            "ref", "ghost", "memory">>]]

LuaConfig ==
    [name |-> "greeter",
     api |-> [methods |-> <<"greet", "echo", "save", "clobber", "sync", "list",
                            "sparse", "keyed", "empty", "try", "ghost", "version">>]]

NoConfig == [name |-> "", api |-> [methods |-> <<>>]]

NoCall == [host |-> "none", method |-> "", args |-> JNull]
NoFrame == [fn |-> "", arg |-> LNil, ip |-> 0]
NoClosure == [op |-> "", args |-> <<>>, pc |-> "", ok |-> TRUE, protected |-> FALSE]

hosts == <<loaded, wconfig, lconfig>>

regVars == <<registry, disk, remote, rcall, succeeded>>

insVars == <<folders, cache, icall>>

vars == <<regVars, insVars, hosts, call, result, trace, invoked,
          lglobals, lstore, lgen, lpc, lframe, cframe, runtime, inflight, events>>

luaState == <<lglobals, lstore, lgen, lpc, lframe, cframe, runtime, inflight>>

(***************************************************************************)
(* The registry.  A git URL is the sequence of its parts: a protocol       *)
(* prefix, words of letters and digits, punctuation characters and the     *)
(* suffix ".git".  A repository is [git, head, tree]: whether the          *)
(* directory is a git repository, the commit of its default branch (0 when *)
(* it has none) and the commit whose files are checked out.  Commits are   *)
(* numbered along the history of the remote.                               *)
(***************************************************************************)
MaxCommits == 3

Protocols == {"https://", "http://", "git://", "ssh://"}

\* `c.is_alphanumeric() || c == '-' || c == '_'` else '_', over a part
SanitizePart(part) ==
    CASE part \in {".", "/", ":", "@"} -> "_"
      [] part = ".git" -> "_git"
      [] part = "https://" -> "https___"
      [] part = "http://" -> "http___"
      [] part = "git://" -> "git___"
      [] part = "ssh://" -> "ssh___"
      [] OTHER -> part

RECURSIVE Join(_)
Join(parts) == IF parts = <<>> THEN "" ELSE SanitizePart(Head(parts)) \o Join(Tail(parts))

\* sanitize_repo_name(url): the directory name of a repository in the cache
sanitize_repo_name(url) ==
    LET without_protocol ==
            IF url # <<>> /\ Head(url) \in Protocols THEN Tail(url) ELSE url
        without_suffix ==
            IF without_protocol # <<>> /\ without_protocol[Len(without_protocol)] = ".git"
            THEN SubSeq(without_protocol, 1, Len(without_protocol) - 1)
            ELSE without_protocol
    IN  Join(without_suffix)

\* anyhow::Error with its context
AnyhowErr(msg) == Err("anyhow", msg)

\* the manifest.toml files under tapplets/ at a commit, as
\* TappletConfig::from_file reads them: from the third commit on one of
\* them does not parse
RepoManifests(commit) ==
    CASE commit = 0 -> <<>>
      [] commit = 1 -> <<Ok(WasmConfig)>>
      [] commit = 2 -> <<Ok(WasmConfig), Ok(LuaConfig)>>
      [] OTHER -> <<Ok(WasmConfig), Err("toml", "missing field"), Ok(LuaConfig)>>

\* parse_tapplets_from_repo: the manifests that parse; the others are
\* reported and skipped
parse_tapplets_from_repo(repo) ==
    LET parsed == SelectSeq(RepoManifests(repo.tree), LAMBDA c : c.ok)
    IN  [i \in 1..Len(parsed) |-> parsed[i].val]

\* Repository::open
Repository_open(d, repo_path) ==
    IF d.repos[repo_path].git THEN Ok(d.repos[repo_path])
    ELSE AnyhowErr("could not find repository")

\* clone_repository: RepoBuilder::clone
clone_repository(rem) ==
    IF rem.up THEN Ok([git |-> TRUE, head |-> rem.head, tree |-> rem.head])
    ELSE AnyhowErr("failed to resolve address")

\* fetch_updates: the remote's branches are fetched and the default branch
\* is fast-forwarded to the fetched commit and checked out
fetch_updates(repo, rem) ==
    IF ~rem.up THEN AnyhowErr("failed to resolve address")
    ELSE IF rem.head = 0 THEN AnyhowErr("reference 'FETCH_HEAD' not found")
    ELSE IF repo.head >= rem.head THEN Ok(repo)
    ELSE IF repo.head = 0 THEN AnyhowErr("reference 'refs/heads/master' not found")
    ELSE Ok([repo EXCEPT !.head = rem.head, !.tree = rem.head])

\* checkout_default_branch: main, or master, is checked out
checkout_default_branch(repo) ==
    IF repo.head = 0 THEN AnyhowErr("revspec 'refs/heads/master' not found")
    ELSE Ok([repo EXCEPT !.tree = repo.head])

FetchResult(repo_path, was_cloned, repo) ==
    [repository_path |-> repo_path, was_cloned |-> was_cloned,
     commit_hash |-> repo.head, tapplets |-> parse_tapplets_from_repo(repo)]

\* a bug: a repository that is not in the cache is cloned
load_blocking_CloneIfMissing(git_url, d, rem) ==
    LET repo_path == sanitize_repo_name(git_url)
        repository == clone_repository(rem)
    IN  IF ~repository.ok
        THEN [res |-> repository, ops |-> <<"clone">>, disk |-> d]
        ELSE [res |-> Ok(FetchResult(repo_path, TRUE, repository.val)),
              ops |-> <<"clone", "head", "parse">>,
              disk |-> [d EXCEPT !.repos = Put(@, repo_path, repository.val)]]

\* TappletRegistry::load_blocking: the result, the operations performed
\* and the file system it leaves
load_blocking(git_url, d, rem) ==
    LET repo_path == sanitize_repo_name(git_url) IN
    IF repo_path \notin DOMAIN d.repos
    THEN [res |-> AnyhowErr("Repository not found. Please fetch it first using fetch()."),
          ops |-> <<>>, disk |-> d]
    ELSE
    LET repository == Repository_open(d, repo_path) IN
    IF ~repository.ok
    THEN [res |-> AnyhowErr("Failed to open cached repository"),
          ops |-> <<"open">>, disk |-> d]
    ELSE IF repository.val.head = 0
    THEN [res |-> AnyhowErr("Failed to get HEAD reference"),
          ops |-> <<"open", "head">>, disk |-> d]
    ELSE [res |-> Ok(FetchResult(repo_path, FALSE, repository.val)),
          ops |-> <<"open", "head", "parse">>, disk |-> d]

\* the end of fetch_blocking, from the checkout of the default branch on
FetchCheckout(repo_path, was_cloned, repo, d, ops) ==
    LET checked == checkout_default_branch(repo) IN
    IF ~checked.ok
    THEN [res |-> AnyhowErr("Failed to checkout default branch"),
          ops |-> ops \o <<"checkout">>,
          disk |-> [d EXCEPT !.repos = Put(@, repo_path, repo)]]
    ELSE [res |-> Ok(FetchResult(repo_path, was_cloned, checked.val)),
          ops |-> ops \o <<"checkout", "head", "parse">>,
          disk |-> [d EXCEPT !.repos = Put(@, repo_path, checked.val)]]

\* TappletRegistry::fetch_blocking; partial tells whether a clone that
\* fails leaves the directory it had begun
fetch_blocking(git_url, d, rem, partial) ==
    LET repo_path == sanitize_repo_name(git_url)
        made == IF d.cache THEN <<>> ELSE <<"create_dir_all">>
        d1 == [d EXCEPT !.cache = TRUE]
    IN
    IF repo_path \in DOMAIN d.repos
    THEN
        LET repository == Repository_open(d, repo_path) IN
        IF ~repository.ok
        THEN [res |-> AnyhowErr("Failed to open existing repository"),
              ops |-> made \o <<"open">>, disk |-> d1]
        ELSE
        LET fetched == fetch_updates(repository.val, rem) IN
        IF ~fetched.ok
        THEN [res |-> AnyhowErr("Failed to fetch updates"),
              ops |-> made \o <<"open", "fetch">>, disk |-> d1]
        ELSE FetchCheckout(repo_path, FALSE, fetched.val, d1, made \o <<"open", "fetch">>)
    ELSE
        LET repository == clone_repository(rem) IN
        IF ~repository.ok
        THEN [res |-> AnyhowErr("Failed to clone repository"),
              ops |-> made \o <<"clone">>,
              disk |-> IF partial
                       THEN [d1 EXCEPT !.repos = Put(@, repo_path,
                                            [git |-> FALSE, head |-> 0, tree |-> 0])]
                       ELSE d1]
        ELSE FetchCheckout(repo_path, TRUE, repository.val, d1, made \o <<"clone">>)

\* TappletRegistry::new
TappletRegistry_new(git_url) ==
    [git_url |-> git_url, current_revision |-> None, tapplets |-> <<>>,
     is_loaded |-> FALSE]

\* `self.current_revision = Some(result.commit_hash); self.tapplets =
\* result.tapplets; self.is_loaded = true`
Loaded(reg, fetch_result) ==
    [reg EXCEPT !.current_revision = Some(fetch_result.commit_hash),
                !.tapplets = fetch_result.tapplets,
                !.is_loaded = TRUE]

\* the URLs of the model: two that name one directory of the cache, and
\* one of another repository
Urls ==
    {<<"https://", "github", ".", "com", "/", "tari", "/", "tapplets", ".git">>,
     <<"git://", "github", ".", "com", "/", "tari", "/", "tapplets">>,
     <<"ssh://", "git", "@", "example", ".", "org", ":", "registry", ".git">>}

\* the states of the file system a registry may find: no cache directory,
\* an empty one, one where the repository's name is a plain directory
Disks ==
    {[cache |-> FALSE, repos |-> <<>>],
     [cache |-> TRUE, repos |-> <<>>],
     [cache |-> TRUE,
      repos |-> [n \in {"github_com_tari_tapplets"} |->
                    [git |-> FALSE, head |-> 0, tree |-> 0]]]}

NoRCall == [op |-> "none", was |-> TappletRegistry_new(<<>>),
            before |-> [cache |-> FALSE, repos |-> <<>>],
            res |-> Pending, ops |-> <<>>]

\* a bug: an error of load or fetch empties the registry
AfterCall_ClearedOnError(reg, res) ==
    IF res.ok THEN Loaded(reg, res.val)
    ELSE [reg EXCEPT !.current_revision = None, !.tapplets = <<>>, !.is_loaded = FALSE]

\* load and fetch after the blocking part: `??` returns an error before
\* any field is assigned
AfterCall(reg, res) == IF res.ok THEN Loaded(reg, res.val) ELSE reg

\* the name, friendly_name, description and publisher of the manifests of
\* the model, as their characters
SearchText(tapplet) ==
    IF tapplet.name = "calc"
    THEN <<(<<"c", "a", "l", "c">>), <<"C", "a", "l", "c">>,
           <<"A", "d", "d", "s">>, <<"T", "a", "r", "i">>>>
    ELSE <<(<<"g", "r", "e", "e", "t", "e", "r">>), <<"G", "r", "e", "e", "t">>,
           <<"H", "i">>, <<"T", "a", "r", "i">>>>

\* str::to_lowercase over the letters of the model
to_lowercase(str) ==
    [i \in 1..Len(str) |->
        CASE str[i] = "A" -> "a" [] str[i] = "C" -> "c" [] str[i] = "G" -> "g"
          [] str[i] = "H" -> "h" [] str[i] = "T" -> "t" [] OTHER -> str[i]]

\* str::contains
contains(str, pat) ==
    \E i \in 0..(Len(str) - Len(pat)) : SubSeq(str, i + 1, i + Len(pat)) = pat

\* a bug: search does not look at the loaded flag
search_Unguarded(reg, query) ==
    Ok(SelectSeq(reg.tapplets,
                 LAMBDA tapplet : \E i \in 1..4 :
                    contains(to_lowercase(SearchText(tapplet)[i]), to_lowercase(query))))

\* TappletRegistry::search
search(reg, query) ==
    IF ~reg.is_loaded
    THEN AnyhowErr("Registry not loaded. Please call fetch() or load() first.")
    ELSE Ok(SelectSeq(reg.tapplets,
                      LAMBDA tapplet : \E i \in 1..4 :
                         contains(to_lowercase(SearchText(tapplet)[i]), to_lowercase(query))))

\* TappletRegistry::tapplets_and_dirs: each tapplet with its directory
tapplets_and_dirs(reg) ==
    IF ~reg.is_loaded
    THEN AnyhowErr("Registry not loaded. Please call fetch() or load() first.")
    ELSE Ok([i \in 1..Len(reg.tapplets) |->
                <<reg.tapplets[i],
                  <<sanitize_repo_name(reg.git_url), "tapplets", reg.tapplets[i].name>> >>])

\* the queries of the model
Queries == {<<>>, <<"C", "A">>, <<"t", "a", "r", "i">>, <<"h", "i">>, <<"z">>}

\* TappletRegistry::load: load_blocking on a blocking thread, then the
\* registry takes the result; an error leaves it as it was
RegistryLoad ==
    LET r == load_blocking(registry.git_url, disk, remote)
    IN  /\ rcall' = [op |-> "load", was |-> registry, before |-> disk,
                     res |-> r.res, ops |-> r.ops]
        /\ disk' = r.disk
        /\ registry' = AfterCall(registry, r.res)
        /\ succeeded' = (succeeded \/ r.res.ok)
        /\ UNCHANGED <<remote, insVars, hosts, call, result, trace, invoked, luaState, events>>

\* TappletRegistry::fetch
RegistryFetch ==
    \E partial \in BOOLEAN :
        LET r == fetch_blocking(registry.git_url, disk, remote, partial)
        IN  /\ rcall' = [op |-> "fetch", was |-> registry, before |-> disk,
                         res |-> r.res, ops |-> r.ops]
            /\ disk' = r.disk
            /\ registry' = AfterCall(registry, r.res)
            /\ succeeded' = (succeeded \/ r.res.ok)
            /\ UNCHANGED <<remote, insVars, hosts, call, result, trace, invoked, luaState, events>>

\* TappletRegistry::search(query)
RegistrySearch ==
    \E query \in Queries :
        /\ rcall' = [op |-> "search", was |-> registry, before |-> disk,
                     res |-> search(registry, query), ops |-> <<query>>]
        /\ UNCHANGED <<registry, disk, remote, succeeded, insVars, hosts, call, result, trace,
                       invoked, luaState, events>>

\* TappletRegistry::tapplets_and_dirs()
RegistryTappletsAndDirs ==
    /\ rcall' = [op |-> "tapplets_and_dirs", was |-> registry, before |-> disk,
                 res |-> tapplets_and_dirs(registry), ops |-> <<>>]
    /\ UNCHANGED <<registry, disk, remote, succeeded, insVars, hosts, call, result, trace,
                   invoked, luaState, events>>

\* a commit is pushed to the remote
RemotePush ==
    /\ remote.head < MaxCommits
    /\ remote' = [remote EXCEPT !.head = @ + 1]
    /\ UNCHANGED <<registry, disk, rcall, succeeded, insVars, hosts, call, result, trace,
                   invoked, luaState, events>>

\* the remote becomes unreachable, or reachable again
RemoteFlips ==
    /\ remote' = [remote EXCEPT !.up = ~@]
    /\ UNCHANGED <<registry, disk, rcall, succeeded, insVars, hosts, call, result, trace,
                   invoked, luaState, events>>

(***************************************************************************)
(* Local folders.  A source folder has its manifest.toml or not; the       *)
(* folder of a compiled tapplet builds to a set of .wasm files in          *)
(* target/wasm32-unknown-unknown/release, or the build fails; the folder   *)
(* of a script tapplet holds a set of .lua files.                          *)
(***************************************************************************)
\* what `cargo build --release --target wasm32-unknown-unknown` leaves: no
\* success, or the .wasm files of the release directory
Builds ==
    {[success |-> FALSE, wasm_files |-> {}],
     [success |-> TRUE, wasm_files |-> {}],
     [success |-> TRUE, wasm_files |-> {"calc.wasm"}],
     [success |-> TRUE, wasm_files |-> {"calc.wasm", "deps.wasm"}]}

WasmFolders == {[manifest |-> m, build |-> b] : m \in BOOLEAN, b \in Builds}

LuaFolders ==
    {[manifest |-> m, lua_files |-> l] :
        m \in BOOLEAN, l \in {{}, {"main.lua"}, {"main.lua", "util.lua"}}}

\* the end of both install functions: the artifact and then manifest.toml
\* are copied into the target directory
CopyArtifacts(dirs, name, artifact, source, manifest) ==
    LET copied == [dirs EXCEPT ![name] = Put(@, artifact, source)] IN
    IF ~manifest
    THEN [res |-> AnyhowErr("Failed to copy manifest"), cache |-> copied]
    ELSE [res |-> Ok("installed"),
          cache |-> [copied EXCEPT ![name] = Put(@, "manifest.toml", "manifest.toml")]]

\* LocalFolderTapplet::install, wasm_source being the first .wasm file
\* read_dir yields: the result and the cache directory it leaves
LocalFolderTapplet_install(name, folder, dirs, wasm_source) ==
    IF name \in DOMAIN dirs
    THEN [res |-> Ok("already installed"), cache |-> dirs]
    ELSE
    LET created == Put(dirs, name, <<>>) IN
    IF ~folder.build.success
    THEN [res |-> AnyhowErr("Failed to compile tapplet"), cache |-> created]
    ELSE IF folder.build.wasm_files = {}
    THEN [res |-> AnyhowErr("No WASM file found in target directory"), cache |-> created]
    ELSE CopyArtifacts(created, name, name \o ".wasm", wasm_source, folder.manifest)

\* LocalFolderLuaTapplet::install, lua_source being the first .lua file
\* read_dir yields
LocalFolderLuaTapplet_install(name, folder, dirs, lua_source) ==
    IF name \in DOMAIN dirs
    THEN [res |-> Ok("already installed"), cache |-> dirs]
    ELSE
    LET created == Put(dirs, name, <<>>) IN
    IF folder.lua_files = {}
    THEN [res |-> AnyhowErr("No Lua file found in source directory"), cache |-> created]
    ELSE CopyArtifacts(created, name, name \o ".lua", lua_source, folder.manifest)

NoICall == [kind |-> "none", before |-> <<>>, res |-> Pending]

\* LocalFolderTapplet::install(cache_directory) of the tapplet "calc"
InstallWasm ==
    \E wasm_source \in folders.wasm.build.wasm_files \cup {"none"} :
        /\ wasm_source = "none" <=> folders.wasm.build.wasm_files = {}
        /\ LET r == LocalFolderTapplet_install("calc", folders.wasm, cache, wasm_source)
           IN  /\ icall' = [kind |-> "wasm", before |-> cache, res |-> r.res]
               /\ cache' = r.cache
        /\ UNCHANGED <<folders, regVars, hosts, call, result, trace, invoked,
                       luaState, events>>

\* LocalFolderLuaTapplet::install(cache_directory) of the tapplet "greeter"
InstallLua ==
    \E lua_source \in folders.lua.lua_files \cup {"none"} :
        /\ lua_source = "none" <=> folders.lua.lua_files = {}
        /\ LET r == LocalFolderLuaTapplet_install("greeter", folders.lua, cache, lua_source)
           IN  /\ icall' = [kind |-> "lua", before |-> cache, res |-> r.res]
               /\ cache' = r.cache
        /\ UNCHANGED <<folders, regVars, hosts, call, result, trace, invoked,
                       luaState, events>>

\* the developer changes a source folder: the build is fixed or broken, a
\* file is added or removed
EditFolder ==
    /\ \E w \in WasmFolders, l \in LuaFolders :
          /\ (w = folders.wasm) # (l = folders.lua)
          /\ folders' = [wasm |-> w, lua |-> l]
    /\ UNCHANGED <<cache, icall, regVars, hosts, call, result, trace, invoked,
                   luaState, events>>

\* No host exists yet.
HostInit ==
    /\ loaded = [wasm |-> "", lua |-> ""]
    /\ wconfig = NoConfig
    /\ lconfig = NoConfig
    /\ call = NoCall
    /\ result = Pending
    /\ trace = <<>>
    /\ invoked = <<>>
    /\ lglobals = <<>>
    /\ lstore = <<>>
    /\ lgen = 0
    /\ lpc = "idle"
    /\ lframe = NoFrame
    /\ cframe = NoClosure
    /\ runtime = NoRuntime
    /\ inflight = <<>>
    /\ events = <<>>

\* No host exists, and a registry has been made over an empty cache.
Init ==
    /\ HostInit
    /\ registry = TappletRegistry_new(<<"https://", "github", ".", "com", "/",
                                        "tari", "/", "tapplets", ".git">>)
    /\ disk = [cache |-> FALSE, repos |-> <<>>]
    /\ remote = [up |-> TRUE, head |-> 1]
    /\ rcall = NoRCall
    /\ succeeded = FALSE
    /\ folders = [wasm |-> [manifest |-> TRUE,
                            build |-> [success |-> TRUE, wasm_files |-> {"calc.wasm"}]],
                  lua |-> [manifest |-> TRUE, lua_files |-> {"main.lua"}]]
    /\ cache = <<>>
    /\ icall = NoICall

\* A registry has been made for one of the URLs; the remote is empty or has
\* its first commit.
RegistryInit ==
    /\ HostInit
    /\ registry \in {TappletRegistry_new(url) : url \in Urls}
    /\ disk \in Disks
    /\ remote \in {[up |-> up, head |-> head] : up \in BOOLEAN, head \in {0, 1}}
    /\ rcall = NoRCall
    /\ succeeded = FALSE
    /\ folders = [wasm |-> [manifest |-> TRUE,
                            build |-> [success |-> TRUE, wasm_files |-> {"calc.wasm"}]],
                  lua |-> [manifest |-> TRUE, lua_files |-> {"main.lua"}]]
    /\ cache = <<>>
    /\ icall = NoICall

RegistryNext ==
    \/ RegistryLoad
    \/ RegistryFetch
    \/ RegistrySearch
    \/ RegistryTappletsAndDirs
    \/ RemotePush
    \/ RemoteFlips

RegistrySpec == RegistryInit /\ [][RegistryNext]_vars

\* Two source folders in any state, and an empty cache directory.
InstallInit ==
    /\ HostInit
    /\ registry = TappletRegistry_new(<<>>)
    /\ disk = [cache |-> FALSE, repos |-> <<>>]
    /\ remote = [up |-> TRUE, head |-> 1]
    /\ rcall = NoRCall
    /\ succeeded = FALSE
    /\ folders \in [wasm : WasmFolders, lua : LuaFolders]
    /\ cache = <<>>
    /\ icall = NoICall

InstallNext ==
    \/ InstallWasm
    \/ InstallLua
    \/ EditFolder

InstallSpec == InstallInit /\ [][InstallNext]_vars

\* the constructor calls of the model: the constructor and its artifact
WasmLoads ==
    ({"new"} \X {"calc_wasm", "bad_wasm", "linked_wasm", "start_wasm", "missing_wasm"})
    \cup ({"from_bytes"} \X {"module", "magic", "imports", "start_traps"})

LuaLoads ==
    ({"new"} \X {"greeter_lua", "syntax_lua", "boom_lua", "missing_lua"})
    \cup ({"from_string"} \X {"script", "syntax_error", "toplevel_error"})

\* WasmTappletHost::new(config, path) or from_bytes(config, bytes): the
\* host exists when it returns Ok
WasmLoad(how, artifact) ==
    LET r == IF how = "new" THEN WasmNew(WasmConfig, artifact)
             ELSE WasmFromBytes(WasmConfig, artifact)
    IN  /\ call = NoCall
        /\ loaded.wasm = ""
        /\ call' = [host |-> "load", method |-> "WasmTappletHost::" \o how,
                    args |-> JString(artifact)]
        /\ result' = IF r.ok THEN Ok(JString("WasmTappletHost")) ELSE r
        /\ IF r.ok
           THEN /\ wconfig' = r.val.config
                /\ loaded' = [loaded EXCEPT !.wasm = r.val.instance]
           ELSE UNCHANGED <<wconfig, loaded>>
        /\ UNCHANGED <<regVars, insVars, lconfig, trace, invoked, luaState, events>>

\* LuaTappletHost::new(config, path, api) or from_string(config, code, api)
LuaLoad(how, artifact) ==
    LET r == IF how = "new" THEN LuaNew(LuaConfig, artifact)
             ELSE LuaFromString(LuaConfig, artifact)
    IN  /\ call = NoCall
        /\ loaded.lua = ""
        /\ call' = [host |-> "load", method |-> "LuaTappletHost::" \o how,
                    args |-> JString(artifact)]
        /\ result' = IF r.ok THEN Ok(JString("LuaTappletHost")) ELSE r
        /\ IF r.ok
           THEN /\ lconfig' = r.val.config
                /\ lglobals' = r.val.lua
                /\ loaded' = [loaded EXCEPT !.lua = r.val.source]
           ELSE UNCHANGED <<lconfig, lglobals, loaded>>
        /\ UNCHANGED <<regVars, insVars, wconfig, trace, invoked, lstore, lgen, lpc, lframe, cframe,
                       runtime, inflight, events>>

\* WasmTappletHost::run(method, args)
WasmRun(method, args) ==
    LET r == WasmHostRun(method, args)
    IN  /\ call = NoCall
        /\ loaded.wasm # ""
        /\ call' = [host |-> "wasm", method |-> method, args |-> args]
        /\ result' = r.res
        /\ trace' = r.trace
        /\ invoked' = r.invoked
        /\ UNCHANGED <<regVars, insVars, hosts, luaState, events>>

\* LuaTappletHost::run(method, args) polled by a task of runtime rt, up to
\* the entry into the script function
LuaRun(method, args, rt) ==
    LET r == LuaHostRunPrologue(method, args)
    IN  /\ call = NoCall
        /\ loaded.lua # ""
        /\ lgen < MaxRuns
        /\ call' = [host |-> "lua", method |-> method, args |-> args]
        /\ result' = r.res
        /\ trace' = r.trace
        /\ lglobals' = r.globals
        /\ IF r.enter
           THEN /\ lgen' = lgen + 1
                /\ lpc' = "script"
                /\ lframe' = [fn |-> r.func.f.name,
                              arg |-> FirstParameter(CallArgs(r.lua_args)), ip |-> 1]
                /\ invoked' = <<[fn |-> r.func.f.name, args |-> CallArgs(r.lua_args),
                                 ret |-> Pending]>>
                /\ runtime' = rt
           ELSE /\ invoked' = <<>>
                /\ UNCHANGED <<lgen, lpc, lframe, runtime>>
        /\ UNCHANGED <<regVars, insVars, hosts, lstore, cframe, inflight, events>>

CurrentOp == ScriptCode[lframe.fn][lframe.ip]

\* run is over: it returned res, or it unwound with a panic
RunEnds(res) ==
    /\ result' = res
    /\ lpc' = "idle"
    /\ lframe' = NoFrame
    /\ cframe' = NoClosure
    /\ UNCHANGED runtime

\* a bug: the error of the script function is logged and run returns null
ScriptFails_Swallowed(msg) == RunEnds(Ok(JNull))

\* the script function fails: func.call returns the error and run maps it
ScriptFails(msg) == RunEnds(Err("LuaExecutionError", msg))

\* a panic in a capability closure: mlua carries it through the interpreter
\* and resumes it when func.call comes back, so run unwinds
Panics(msg) == RunEnds([ok |-> FALSE, kind |-> "panic", msg |-> msg])

Event(ev, cf) == [ev |-> ev, op |-> cf.op, args |-> cf.args]

\* the instructions of a script that call a global
IsCall(o) == o.op \in {"callglobal", "pcallglobal"}

\* the script function goes on after the call it was in
ScriptGoesOn ==
    /\ lpc' = "script"
    /\ lframe' = [lframe EXCEPT !.ip = @ + 1]
    /\ cframe' = NoClosure
    /\ UNCHANGED result

\* a panic in a capability closure: run unwinds with it, or, when the call
\* is made through pcall and the interpreter hands panics to pcall
\* (LuaOptions::catch_rust_panics), the script goes on
ClosurePanics(msg) ==
    \/ /\ Panics(msg)
       /\ events' = Append(events, Event("panic", cframe))
    \/ /\ cframe.protected
       /\ ScriptGoesOn
       /\ events' = events \o <<Event("panic", cframe), Event("recovered", cframe)>>
       /\ UNCHANGED runtime

\* the script assigns a global
ScriptSetGlobal ==
    /\ lpc = "script"
    /\ CurrentOp.op = "setglobal"
    /\ lglobals' = Put(lglobals, CurrentOp.name, CurrentOp.value)
    /\ lframe' = [lframe EXCEPT !.ip = @ + 1]
    /\ UNCHANGED <<regVars, insVars, hosts, call, result, trace, invoked, lstore, lgen, lpc,
                   cframe, runtime, inflight, events>>

\* the script calls a global, directly or through pcall: a capability
\* closure is entered with the arguments; calling anything that is not a
\* function is a runtime error, which pcall catches
ScriptCallGlobal ==
    /\ lpc = "script"
    /\ IsCall(CurrentOp)
    /\ LET g == GetGlobal(CurrentOp.name)
       IN  IF g.t = "function" /\ g.f.kind = "capability"
           THEN /\ lpc' = "capability"
                /\ cframe' = [op |-> g.f.op, args |-> CurrentOp.args,
                              pc |-> "block_in_place", ok |-> TRUE,
                              protected |-> CurrentOp.op = "pcallglobal"]
                /\ events' = Append(events, Event("issue", cframe'))
                /\ UNCHANGED <<result, lframe, runtime>>
           ELSE IF CurrentOp.op = "pcallglobal"
           THEN /\ ScriptGoesOn
                /\ UNCHANGED <<events, runtime>>
           ELSE /\ ScriptFails("attempt to call a non-function value")
                /\ UNCHANGED events
    /\ UNCHANGED <<regVars, insVars, hosts, call, trace, invoked, lglobals, lstore, lgen, inflight>>

\* a bug: the closure blocks where it stands, on any runtime
block_in_place_Naive(rt) == [panic |-> FALSE, rt |-> rt]

\* tokio::task::block_in_place: on the multi-thread scheduler the worker's
\* core is handed to another thread; on the current-thread scheduler it
\* panics; outside tokio it does nothing
block_in_place(rt) ==
    CASE rt.flavor = "multi_thread" -> [panic |-> FALSE, rt |-> [rt EXCEPT !.core = FALSE]]
      [] rt.flavor = "current_thread" -> [panic |-> TRUE, rt |-> rt]
      [] OTHER -> [panic |-> FALSE, rt |-> rt]

\* the capability closure enters block_in_place
BlockInPlace ==
    /\ lpc = "capability"
    /\ cframe.pc = "block_in_place"
    /\ LET b == block_in_place(runtime)
       IN  IF b.panic
           THEN ClosurePanics("can call blocking only when running on the multi-threaded runtime")
           ELSE /\ runtime' = b.rt
                /\ cframe' = [cframe EXCEPT !.pc = "block_on"]
                /\ UNCHANGED <<result, lpc, lframe, events>>
    /\ UNCHANGED <<regVars, insVars, hosts, call, trace, invoked, lglobals, lstore, lgen, inflight>>

\* a bug: the operation is tried twice
Invocations_Retried(cf) ==
    <<[op |-> cf.op, args |-> cf.args], [op |-> cf.op, args |-> cf.args]>>

\* `api2.append_data(&slot, &value)`, `api3.load_data_entries(&slot)`: the
\* operations of the handle the closure starts
Invocations(cf) == <<[op |-> cf.op, args |-> cf.args]>>

\* a bug: the operation is started and the closure does not wait for it
block_on_Spawned(cf) == [cf EXCEPT !.pc = "resume"]

\* `Handle::block_on(async { .. .await })`: the closure waits until the
\* operation has resolved
block_on(cf) == [cf EXCEPT !.pc = "await"]

\* the capability closure takes the handle of the current runtime (a panic
\* when there is none) and starts the operation under block_on
HandleBlockOn ==
    /\ lpc = "capability"
    /\ cframe.pc = "block_on"
    /\ IF runtime.flavor = "foreign"
       THEN /\ ClosurePanics("there is no reactor running")
            /\ UNCHANGED inflight
       ELSE /\ inflight' = inflight \o Invocations(cframe)
            /\ events' = events \o [i \in 1..Len(Invocations(cframe)) |->
                                       Event("start", Invocations(cframe)[i])]
            /\ cframe' = block_on(cframe)
            /\ UNCHANGED <<result, lpc, lframe, runtime>>
    /\ UNCHANGED <<regVars, insVars, hosts, call, trace, invoked, lglobals, lstore, lgen>>

\* the handle's oldest operation resolves, with success or with an error;
\* the data a successful append_data added is in the store.  It needs a
\* worker of the runtime to run on.
ApiResolves ==
    /\ inflight # <<>>
    /\ FreeWorkers(runtime) > 0
    /\ \E served \in BOOLEAN :
          /\ lstore' = IF served /\ Head(inflight).op = "append_data"
                       THEN Append(lstore, Head(inflight).args)
                       ELSE lstore
          /\ cframe' = IF lpc = "capability" /\ cframe.pc = "await"
                       THEN [cframe EXCEPT !.pc = "resume", !.ok = served]
                       ELSE cframe
    /\ inflight' = Tail(inflight)
    /\ events' = Append(events, Event("complete", Head(inflight)))
    /\ UNCHANGED <<regVars, insVars, hosts, call, result, trace, invoked, lglobals, lgen,
                   lpc, lframe, runtime>>

\* block_on and block_in_place return, the thread taking a core back if
\* one is at hand, and the closure returns to the script: the script goes
\* on, or the error of the operation is raised in it, where pcall catches it
\* or the script function fails with it
CapabilityReturns ==
    /\ lpc = "capability"
    /\ cframe.pc = "resume"
    /\ IF cframe.ok \/ cframe.protected
       THEN /\ ScriptGoesOn
            /\ \E core \in (IF runtime.flavor = "multi_thread" THEN BOOLEAN ELSE {runtime.core}) :
                  runtime' = [runtime EXCEPT !.core = core]
            /\ events' = Append(events, Event(IF cframe.ok THEN "return" ELSE "caught", cframe))
       ELSE /\ ScriptFails("capability error")
            /\ events' = Append(events, Event("raise", cframe))
    /\ UNCHANGED <<regVars, insVars, hosts, call, trace, invoked, lglobals, lstore, lgen, inflight>>

\* the script function returns: the value is converted and run returns
ScriptReturn ==
    /\ lpc = "script"
    /\ CurrentOp.op = "return"
    /\ LET v == Eval(CurrentOp.expr, lframe.arg)
       IN  IF ~v.ok
           THEN /\ result' = Err("LuaExecutionError", v.msg)
                /\ UNCHANGED <<trace, invoked>>
           ELSE /\ result' \in lua_value_to_json(FromLua(v.val))
                /\ trace' = Append(trace, "lua_value_to_json")
                /\ invoked' = <<[invoked[1] EXCEPT !.ret = Ok(FromLua(v.val))]>>
    /\ lpc' = "idle"
    /\ lframe' = NoFrame
    /\ UNCHANGED <<regVars, insVars, hosts, call, lglobals, lstore, lgen,
                   cframe, runtime, inflight, events>>

\* the caller is done with the result of the run and may issue the next
Drop ==
    /\ call # NoCall
    /\ lpc = "idle"
    /\ call' = NoCall
    /\ result' = Pending
    /\ trace' = <<>>
    /\ invoked' = <<>>
    /\ events' = <<>>
    /\ runtime' = NoRuntime
    /\ UNCHANGED <<regVars, insVars, hosts, lglobals, lstore, lgen, lpc, lframe, cframe, inflight>>

Next ==
    \/ call = NoCall /\ \E l \in WasmLoads : WasmLoad(l[1], l[2])
    \/ call = NoCall /\ \E l \in LuaLoads : LuaLoad(l[1], l[2])
    \/ call = NoCall /\ \E method \in WasmTestMethods, args \in TestArgs :
                            WasmRun(method, args)
    \/ call = NoCall /\ \E r \in LuaTestRuns : LuaRun(r[1], r[2], r[3])
    \/ ScriptSetGlobal
    \/ ScriptCallGlobal
    \/ BlockInPlace
    \/ HandleBlockOn
    \/ ApiResolves
    \/ CapabilityReturns
    \/ ScriptReturn
    \/ Drop

Spec == Init /\ [][Next]_vars

\* a step of the thread that runs the script function and its closures
ThreadStep ==
    \/ ScriptSetGlobal
    \/ ScriptCallGlobal
    \/ BlockInPlace
    \/ HandleBlockOn
    \/ CapabilityReturns
    \/ ScriptReturn

\* The scripting host alone, driven on each of the runtimes.
BridgeNext ==
    \/ call = NoCall /\ \E l \in LuaLoads : LuaLoad(l[1], l[2])
    \/ call = NoCall /\ \E r \in BridgeRuns : LuaRun(r[1], r[2], r[3])
    \/ ThreadStep
    \/ ApiResolves
    \/ Drop

\* The thread inside func.call keeps running while it can, and an operation
\* of the handle resolves when the runtime has a worker for it.
BridgeSpec ==
    Init /\ [][BridgeNext]_vars /\ WF_vars(ThreadStep) /\ WF_vars(ApiResolves)

(***************************************************************************)
(* Properties                                                              *)
(***************************************************************************)
Range(f) == {f[x] : x \in DOMAIN f}

Allowlisted == call.method \in Range(IF call.host = "wasm" THEN wconfig.api.methods
                                     ELSE lconfig.api.methods)

\* the method names a callable of the backend: an exported function of the
\* module, or a global of the interpreter that is a function
HasCallable ==
    IF call.host = "wasm"
    THEN call.method \in DOMAIN WasmExports /\ WasmExports[call.method].kind = "function"
    ELSE call.method \in DOMAIN lglobals /\ lglobals[call.method].t = "function"

\* C1: on either host a run of a method that is not (exactly, with case) in
\* config.api.methods returns MethodNotFound(method) whatever the arguments,
\* and has done no backend work: no lookup, no conversion, no registration
\* of capabilities, no call into the extension.
C1_NotAllowlistedNoBackendWork ==
    (call.host \in {"wasm", "lua"} /\ ~Allowlisted) =>
        /\ result = Err("MethodNotFound", call.method)
        /\ trace = <<>>
        /\ invoked = <<>>
        /\ lpc = "idle"

\* an exported function that is not declared is refused without being looked up
C1_Witness ==
    /\ call = [host |-> "wasm", method |-> "hidden", args |-> JArray(<<>>)]
    /\ result = Err("MethodNotFound", "hidden")

\* C2: a run of a declared method for which the backend has no callable
\* (no exported function, no global that is a function) returns
\* MethodNotFound(method) whatever the arguments, convertible or not.
C2_NoCallableMethodNotFound ==
    (call.host \in {"wasm", "lua"} /\ Allowlisted /\ ~HasCallable) =>
        /\ result = Err("MethodNotFound", call.method)
        /\ invoked = <<>>

\* the global `version` is a string, and the argument could not be converted
C2_Witness ==
    /\ call = [host |-> "lua", method |-> "version", args |-> JInt(Two31)]
    /\ ~json_to_lua_value(call.args).ok
    /\ result = Err("MethodNotFound", "version")

ResultKind == IF result.ok THEN "ok" ELSE result.kind

\* the run passed the allowlist check and the lookup of its callable
Resolved == call.host \in {"wasm", "lua"} /\ Allowlisted /\ HasCallable

RECURSIVE InnerSafe(_)
\* a value that a list or a map can hold and give back: no null, no empty
\* list, integers within i32, other numbers with a fractional part
InnerSafe(v) ==
    CASE v.t = "null" -> FALSE
      [] v.t = "bool" -> TRUE
      [] v.t = "number" -> IF v.n.k = "int" THEN InI32(v.n.v) ELSE v.n.f.den # 1
      [] v.t = "string" -> TRUE
      [] v.t = "array" -> v.items # <<>> /\ \A i \in 1..Len(v.items) : InnerSafe(v.items[i])
      [] v.t = "object" -> \A key \in DOMAIN v.m : InnerSafe(v.m[key])

\* the native argument of a scripting run converted back
BackToJson == lua_value_to_json(invoked[1].args[1])

\* C3 as stated: every value json_to_lua_value accepts comes back from
\* lua_value_to_json as itself.
C3_Original ==
    (call.host = "lua" /\ invoked # <<>>) => BackToJson = {Ok(call.args)}

\* C3 as amended: null, and every value built from booleans, integers within
\* i32, numbers with a fractional part and strings by non-empty lists and by
\* maps, with no null inside a list or map, comes back as itself; the empty
\* map comes back as the empty map, and so does the empty list.
C3_RoundTrip ==
    (call.host = "lua" /\ invoked # <<>>) =>
        /\ (call.args = JNull \/ InnerSafe(call.args)) => BackToJson = {Ok(call.args)}
        /\ call.args = JObject(<<>>) =>
              invoked[1].args[1] = EmptyTable /\ BackToJson = {Ok(JObject(<<>>))}
        /\ call.args = JArray(<<>>) =>
              invoked[1].args[1] = EmptyTable /\ BackToJson = {Ok(JObject(<<>>))}

\* a list holding an integer and a map has made the round trip
C3_Witness ==
    /\ call.host = "lua" /\ invoked # <<>>
    /\ call.args = JArray(<<JInt(Small(2)), JObject([key \in {"b"} |-> JString("World")])>>)
    /\ invoked[1].args[1].t = "table"
    /\ BackToJson = {Ok(call.args)}

RECURSIVE HasIntOutsideI32(_)
\* an integer Number outside the i32 range, at any depth
HasIntOutsideI32(v) ==
    CASE v.t = "number" -> v.n.k = "int" /\ ~InI32(v.n.v)
      [] v.t = "array" -> \E i \in 1..Len(v.items) : HasIntOutsideI32(v.items[i])
      [] v.t = "object" -> \E key \in DOMAIN v.m : HasIntOutsideI32(v.m[key])
      [] OTHER -> FALSE

\* C4: a scripting run that reaches the conversion of its argument returns
\* InvalidArguments exactly when the argument holds, at any depth, an integer
\* Number outside -2^31 .. 2^31 - 1; 2147483647 is accepted and 2147483648
\* is refused.
C4_IntegerRange ==
    (call.host = "lua" /\ Resolved) =>
        /\ (ResultKind = "InvalidArguments") <=> HasIntOutsideI32(call.args)
        /\ call.args = JInt(I32_MAX) =>
              Len(invoked) = 1 /\ invoked[1].args = <<LInteger(I32_MAX)>>
        /\ call.args = JInt(Two31) => ResultKind = "InvalidArguments"

RECURSIVE HasString(_)
\* a String, at any depth
HasString(v) ==
    CASE v.t = "string" -> TRUE
      [] v.t = "array" -> \E i \in 1..Len(v.items) : HasString(v.items[i])
      [] v.t = "object" -> \E key \in DOMAIN v.m : HasString(v.m[key])
      [] OTHER -> FALSE

\* C5: a compiled run of a declared and exported method whose argument is a
\* String, or a List or Map holding a String anywhere, returns
\* InvalidArguments and the exported function is not invoked.
C5_StringRefused ==
    (call.host = "wasm" /\ Resolved /\ HasString(call.args)) =>
        /\ ResultKind = "InvalidArguments"
        /\ invoked = <<>>
        /\ \A i \in 1..Len(trace) : trace[i] # "call"

\* add is refused a list whose second element is a string
C5_Witness ==
    /\ call = [host |-> "wasm", method |-> "add",
               args |-> JArray(<<JInt(Small(2)), JString("World")>>)]
    /\ ResultKind = "InvalidArguments"

\* the call arguments the claims expect for an interchange argument: its
\* elements, its values by ascending key, or itself
ExpectedArgs(v) ==
    CASE v.t = "array" -> v.items
      [] v.t = "object" -> [i \in 1..Cardinality(DOMAIN v.m) |->
                              v.m[SortedKeys(DOMAIN v.m)[i]]]
      [] OTHER -> <<v>>

\* C6: the native arguments of a compiled call are one per element of a
\* List in list order, one per entry of a Map in iteration order without
\* the keys, and exactly one for any other value; the function is called
\* exactly when each of them converts; add called with [2, 3] receives
\* (2, 3) and run returns 5.
C6_ArgumentShaping ==
    (call.host = "wasm" /\ Resolved) =>
        LET e == ExpectedArgs(call.args)
            convertible == \A i \in 1..Len(e) : json_value_to_wasm(e[i]).ok
        IN  /\ convertible <=> invoked # <<>>
            /\ ~convertible => ResultKind = "InvalidArguments"
            /\ invoked # <<>> =>
                  /\ Len(invoked) = 1
                  /\ invoked[1].fn = call.method
                  /\ Len(invoked[1].args) = Len(e)
                  /\ \A i \in 1..Len(e) : Ok(invoked[1].args[i]) = json_value_to_wasm(e[i])
            /\ (call.method = "add" /\ call.args = JArray(<<JInt(Small(2)), JInt(Small(3))>>)) =>
                  /\ invoked[1].args = <<I64(Small(2)), I64(Small(3))>>
                  /\ result = Ok(JInt(Small(5)))

\* swap has been called with the values of a map, by ascending key
C6_Witness ==
    /\ call = [host |-> "wasm", method |-> "swap",
               args |-> JObject([key \in {"a", "c"} |->
                            IF key = "a" THEN JInt(Small(3)) ELSE JFloat(Fin(Small(3), 2))])]
    /\ invoked # <<>>
    /\ invoked[1].args = <<I64(Small(3)), F64(Fin(Small(3), 2))>>
    /\ result.ok

\* C7 as stated: every integer Number becomes an I64, every other Number an
\* F64, a Bool the I32 1 or 0.
C7_Original ==
    (call.host = "wasm" /\ invoked # <<>>) =>
        LET e == ExpectedArgs(call.args)
        IN  \A i \in 1..Len(e) :
                /\ (e[i].t = "number" /\ e[i].n.k = "int") => invoked[1].args[i] = I64(e[i].n.v)
                /\ (e[i].t = "number" /\ e[i].n.k = "float") => invoked[1].args[i] = F64(e[i].n.f)
                /\ e[i].t = "bool" =>
                      invoked[1].args[i] = I32(IF e[i].b THEN Small(1) ELSE Small(0))

\* C7 as amended: an integer Number within the i64 range becomes the I64 of
\* that value; any other Number, an integer above 2^63 - 1 included, becomes
\* an F64; a Bool becomes the I32 1 or 0.
C7_ElementConversion ==
    (call.host = "wasm" /\ invoked # <<>>) =>
        LET e == ExpectedArgs(call.args)
        IN  \A i \in 1..Len(e) :
                /\ (e[i].t = "number" /\ e[i].n.k = "int" /\ WLeq(e[i].n.v, I64_MAX)) =>
                      invoked[1].args[i] = I64(e[i].n.v)
                /\ (e[i].t = "number" /\ e[i].n.k = "int" /\ ~WLeq(e[i].n.v, I64_MAX)) =>
                      invoked[1].args[i] = F64(Fin(e[i].n.v, 1))
                /\ (e[i].t = "number" /\ e[i].n.k = "float") => invoked[1].args[i] = F64(e[i].n.f)
                /\ e[i].t = "bool" =>
                      invoked[1].args[i] = I32(IF e[i].b THEN Small(1) ELSE Small(0))

\* swap has been called with 2 and with 2^63, which went as an F64
C7_Witness ==
    /\ call = [host |-> "wasm", method |-> "swap",
               args |-> JArray(<<JInt(Small(2)), JInt(Two63)>>)]
    /\ invoked # <<>>
    /\ invoked[1].args = <<I64(Small(2)), F64(Fin(Two63, 1))>>
    /\ result = Ok(JArray(<<JFloat(Fin(Two63, 1)), JInt(Small(2))>>))

\* the native values the called function returned
Returned == invoked[1].ret.val

\* the values returned by a compiled call that did not trap
Returns == call.host = "wasm" /\ invoked # <<>> /\ invoked[1].ret.ok

\* a native result that has no interchange form
Unconvertible(w) ==
    \/ w.t \in {"F32", "F64"} /\ w.f.k # "fin"
    \/ w.t \notin {"I32", "I64", "F32", "F64"}

\* the interchange form the claims expect of a native result
ExpectedJson(w) == IF w.t \in {"I32", "I64"} THEN JInt(w.v) ELSE JFloat(w.f)

\* C8: a compiled run returns Null when the function returned no value, the
\* conversion of the value itself (no List around it) when it returned one,
\* and the List of the conversions in the same order when it returned more.
C8_ResultArity ==
    Returns =>
        /\ Len(Returned) = 0 => result = Ok(JNull)
        /\ Len(Returned) = 1 =>
              /\ result = wasm_value_to_json(Returned[1])
              /\ result.ok => result.val.t = "number"
        /\ (Len(Returned) > 1 /\ result.ok) =>
              /\ result.val.t = "array"
              /\ Len(result.val.items) = Len(Returned)
              /\ \A i \in 1..Len(Returned) :
                    Ok(result.val.items[i]) = wasm_value_to_json(Returned[i])

\* pair returned an I32 and an F32, and run a list of two numbers
C8_Witness ==
    /\ call.host = "wasm" /\ call.method = "pair"
    /\ Returns /\ Returned = <<I32(Small(7)), F32(Fin(Small(3), 2))>>
    /\ result = Ok(JArray(<<JInt(Small(7)), JFloat(Fin(Small(3), 2))>>))

\* C9: I32 and I64 results become integer Numbers of the same value, finite
\* F32 and F64 results become Numbers; a float that is not finite and a
\* result of any other kind make run return ExecutionError, also when it is
\* one of several results: no partial List is returned.
C9_ResultConversion ==
    Returns =>
        /\ (\E i \in 1..Len(Returned) : Unconvertible(Returned[i])) =>
              ResultKind = "ExecutionError"
        /\ (\A i \in 1..Len(Returned) : ~Unconvertible(Returned[i])) =>
              /\ result.ok
              /\ Len(Returned) = 1 => result.val = ExpectedJson(Returned[1])
              /\ Len(Returned) > 1 =>
                    result.val = JArray([i \in 1..Len(Returned) |-> ExpectedJson(Returned[i])])

\* mixed returned an infinity between two integers: the run is an error
C9_Witness ==
    /\ call.host = "wasm" /\ call.method = "mixed"
    /\ Returns /\ Len(Returned) = 3 /\ Unconvertible(Returned[2])
    /\ ResultKind = "ExecutionError"

\* the script function has just been entered
Entered == lpc = "script" /\ lframe.ip = 1

\* the registration comes before the call among the run's operations
RegisteredBeforeCall ==
    \E i, j, k \in 1..Len(trace) :
        /\ i < j /\ j < k
        /\ trace[i] = "globals.set" /\ trace[j] = "globals.set" /\ trace[k] = "call"
        /\ \A n \in 1..Len(trace) : trace[n] = "call" => n = k

CallEvents(i) ==
    /\ events[i].ev = "issue"
    /\ events[i + 1] = [events[i] EXCEPT !.ev = "start"]
    /\ events[i + 2] = [events[i] EXCEPT !.ev = "complete"]
    /\ events[i + 3].ev \in {"return", "raise", "caught"}
    /\ events[i + 3].op = events[i].op /\ events[i + 3].args = events[i].args

\* every capability call issued has invoked its operation once, and the
\* operation had resolved when the capability function came back
EachCallServedOnce ==
    /\ Len(events) % 4 = 0
    /\ \A i \in 1..Len(events) : i % 4 = 1 => CallEvents(i)
    /\ inflight = <<>>

\* the capability calls the script function has issued so far
Issued ==
    LET code == ScriptCode[invoked[1].fn]
        upto == IF lpc = "idle" THEN Len(code) ELSE lframe.ip
    IN  {i \in 1..upto : IsCall(code[i])}

\* C11 as stated: when a scripting run is over, and whenever the script
\* function is running between two capability calls, each capability call
\* issued so far has invoked the handle's operation exactly once with the
\* same arguments and the operation has completed.
C11_Original ==
    (call.host = "lua" /\ invoked # <<>> /\ lpc \in {"idle", "script"}) =>
        /\ EachCallServedOnce
        /\ lpc = "script" => Len(events) = 4 * Cardinality({i \in Issued : i < lframe.ip})

\* C11 as amended: the same when the run is polled by a task of a
\* multi-thread runtime.  On a current-thread runtime, and outside the
\* runtime, a capability call panics and the operation is not invoked; the
\* run unwinds with the panic unless the script has caught it.  A script that appends ("profile", "x=1") and
\* returns true leaves exactly one invocation with those arguments, and its
\* data in the store, when run returns true.
C11_CapabilityCallOnce ==
    (call.host = "lua" /\ invoked # <<>> /\ lpc \in {"idle", "script"}) =>
        /\ runtime.flavor = "multi_thread" =>
              /\ EachCallServedOnce
              /\ ResultKind # "panic"
              /\ lpc = "script" =>
                    Len(events) = 4 * Cardinality({i \in Issued : i < lframe.ip})
        /\ (runtime.flavor # "multi_thread" /\ events # <<>>) =>
              /\ Len(events) >= 2
              /\ events[1].ev = "issue" /\ events[2].ev = "panic"
              /\ \A i \in 1..Len(events) : events[i].ev \notin {"start", "complete"}
              /\ inflight = <<>>
              /\ ResultKind = "panic" \/ events[Len(events)].ev = "recovered"
        /\ (call.method = "save" /\ result = Ok(JBool(TRUE))) =>
              /\ Len(events) = 4
              /\ events[2] = [ev |-> "start", op |-> "append_data",
                              args |-> <<"profile", "x=1">>]
              /\ events[4].ev = "return"
              /\ lstore # <<>> /\ lstore[Len(lstore)] = <<"profile", "x=1">>

\* save has returned true after one append_data("profile", "x=1")
C11_Witness ==
    /\ call.host = "lua" /\ call.method = "save"
    /\ result = Ok(JBool(TRUE))
    /\ runtime.flavor = "multi_thread"
    /\ Len(events) = 4 /\ CallEvents(1)
    /\ lstore = <<(<<"profile", "x=1">>)>>

\* the events of one kind among the first n, as the calls they belong to
Calls(ev, n) ==
    LET sel == SelectSeq(SubSeq(events, 1, n), LAMBDA e : e.ev = ev)
    IN  [i \in 1..Len(sel) |-> [op |-> sel[i].op, args |-> sel[i].args]]

\* the capability calls in the code of a script function, in program order
CodeCalls(fn) ==
    LET sel == SelectSeq(ScriptCode[fn], IsCall)
    IN  [i \in 1..Len(sel) |->
            [op |-> IF sel[i].name = "minotari_append_data" THEN "append_data"
                    ELSE "load_data_entries",
             args |-> sel[i].args]]

IsPrefix(p, q) == Len(p) <= Len(q) /\ SubSeq(q, 1, Len(p)) = p

\* C12: within one scripting run the handle's operations are started and
\* completed in the order in which the script issues the capability calls,
\* a call is issued only when the operation of the call before has
\* completed, and never are two operations in progress.
C12_CapabilityCallsInOrder ==
    (call.host = "lua" /\ invoked # <<>>) =>
        /\ Len(inflight) <= 1
        /\ IsPrefix(Calls("issue", Len(events)), CodeCalls(invoked[1].fn))
        /\ IsPrefix(Calls("start", Len(events)), Calls("issue", Len(events)))
        /\ IsPrefix(Calls("complete", Len(events)), Calls("start", Len(events)))
        /\ \A n \in 1..Len(events) :
              /\ events[n].ev = "start" =>
                    Len(Calls("start", n - 1)) = Len(Calls("complete", n - 1))
              /\ events[n].ev = "issue" =>
                    Len(Calls("issue", n - 1)) = Len(Calls("complete", n - 1))

\* sync has returned after its two capability calls, one after the other
C12_Witness ==
    /\ call.host = "lua" /\ call.method = "sync"
    /\ result = Ok(JBool(TRUE))
    /\ Len(events) = 8
    /\ Calls("complete", 8) =
          <<[op |-> "append_data", args |-> <<"profile", "x=1">>],
            [op |-> "load_data_entries", args |-> <<"profile">>]>>
    /\ events[4].ev = "return" /\ events[5].ev = "issue"

\* C13: the closure hands its worker back to the pool of a multi-thread
\* runtime before it blocks, and never waits for an operation on a worker of
\* a current-thread runtime; on a multi-thread runtime a capability function
\* that was called returns, and the run returns, once the operation has
\* resolved.
C13_BridgeDoesNotDeadlock ==
    /\ []((lpc = "capability" /\ cframe.pc = "await") =>
              /\ runtime.flavor = "multi_thread"
              /\ ~runtime.core
              /\ FreeWorkers(runtime) > 0)
    /\ [](inflight # <<>> => runtime.flavor # "current_thread")
    /\ (lpc = "capability" /\ runtime.flavor = "multi_thread") ~> (lpc # "capability")
    /\ (lpc # "idle" /\ runtime.flavor = "multi_thread") ~>
          (lpc = "idle" /\ ResultKind \notin {"pending", "panic"})

\* on a runtime of one worker, the operation resolved while the closure
\* was blocked, and the closure has returned to the script
C13_Witness ==
    /\ call.host = "lua" /\ call.method = "save"
    /\ runtime.flavor = "multi_thread" /\ runtime.workers = 1
    /\ lpc = "script" /\ lframe.ip = 2
    /\ Len(events) = 4 /\ events[4].ev = "return"

\* a scripting run whose script function returned a table
ReturnedTable ==
    /\ call.host = "lua" /\ invoked # <<>> /\ lpc = "idle"
    /\ invoked[1].ret.ok /\ invoked[1].ret.val.t = "table"

\* the decimal string of a table key
KeyText(key) ==
    CASE key.t = "string" -> key.s
      [] key.t = "integer" -> IntegerToString(key.i)
      [] key.t = "number" -> NumberToString(key.f)

\* run returned the List of the values at 1 .. len of the table
IsListOf(table, len) ==
    /\ result.ok /\ result.val.t = "array"
    /\ Len(result.val.items) = len
    /\ \A i \in 1..len : Ok(result.val.items[i]) \in lua_value_to_json(TableGetInt(table, i))

\* run returned the Map of the pairs of the table
IsMapOf(table) ==
    /\ result.ok /\ result.val.t = "object"
    /\ DOMAIN result.val.m = {KeyText(p[1]) : p \in TablePairs(table)}
    /\ \A key \in DOMAIN result.val.m :
          \E p \in TablePairs(table) :
              KeyText(p[1]) = key /\ Ok(result.val.m[key]) \in lua_value_to_json(p[2])
    /\ Cardinality(DOMAIN result.val.m) = Cardinality(TablePairs(table))

CallOver == call.host \in {"load", "wasm", "lua"} /\ lpc = "idle"

\* the artifacts that cannot be loaded: unreadable, not a module, not
\* instantiable, not a script that runs to its end
BadArtifact(a) == a \notin {"calc_wasm", "module", "greeter_lua", "script"}

\* the argument of the call has no native form
ArgumentFault ==
    IF call.host = "wasm" THEN ~json_to_wasm_args(call.args).ok
    ELSE ~json_to_lua_value(call.args).ok

\* the extension function was called and did not return: it trapped, raised
\* an error or unwound
ExtensionFault == invoked # <<>> /\ ~invoked[1].ret.ok

\* the extension function returned a value that has no interchange form
ResultFault ==
    /\ invoked # <<>> /\ invoked[1].ret.ok
    /\ IF call.host = "wasm" THEN ~wasm_results_to_json(invoked[1].ret.val).ok
       ELSE \A r \in lua_value_to_json(invoked[1].ret.val) : ~r.ok

\* a capability operation failed and its error ended as one of evs: raised
\* in the script function, or caught by the script
CapabilityFault(evs) == \E i \in 1..Len(events) : events[i].ev \in evs

\* something failed during the call
Fault(evs) ==
    \/ call.host = "load" /\ BadArtifact(call.args.s)
    \/ /\ call.host \in {"wasm", "lua"}
       /\ \/ ~Allowlisted
          \/ ~HasCallable
          \/ ArgumentFault
          \/ ExtensionFault
          \/ ResultFault
          \/ CapabilityFault(evs)

\* nothing is tried twice: the extension function is called at most once in
\* a run, and a capability call has started its operation at most once
NoRetries ==
    /\ Len(invoked) <= 1
    /\ Cardinality({i \in 1..Len(trace) : trace[i] = "call"}) <= 1
    /\ \A n \in 0..Len(events) : Len(Calls("start", n)) <= Len(Calls("issue", n))

\* C15 as stated: a call in which anything failed, a capability operation
\* included, has returned an error; nothing is tried twice.
C15_Original ==
    /\ (CallOver /\ Fault({"raise", "caught"})) => ~result.ok
    /\ NoRetries

\* C15 as amended: a call in which the allowlist check, the lookup, a
\* conversion, the extension function or the load failed has returned an
\* error, and a call that returned a value had none of these failures; the
\* error of a failing capability operation is raised in the script at the
\* call, and the run returns an error unless the script itself caught it
\* with pcall; nothing is tried twice.
C15_ErrorsReturnedNoRetries ==
    /\ (CallOver /\ Fault({"raise"})) => ~result.ok
    /\ (CallOver /\ CapabilityFault({"raise"})) => ResultKind = "LuaExecutionError"
    /\ \A i \in 1..Len(events) :
          events[i].ev = "caught" =>
              \E o \in Range(ScriptCode[invoked[1].fn]) :
                  o.op = "pcallglobal" /\ o.args = events[i].args
    /\ NoRetries

\* the operation of save failed and run has returned the error
C15_Witness ==
    /\ call.host = "lua" /\ call.method = "save" /\ lpc = "idle"
    /\ Len(events) = 4 /\ events[3].ev = "complete" /\ events[4].ev = "raise"
    /\ result = Err("LuaExecutionError", "capability error")

\* the error a load of an artifact that cannot be loaded is to return
LoadErrorKind(a) ==
    CASE a \in {"missing_wasm", "missing_lua"} -> "IoError"
      [] a \in {"bad_wasm", "magic"} -> "WasmCompileError"
      [] a \in {"linked_wasm", "imports", "start_wasm", "start_traps"} ->
            "WasmInstantiationError"
      [] a \in {"syntax_lua", "syntax_error", "boom_lua", "toplevel_error"} ->
            "LuaLoadError"

WasmLoaders == {"WasmTappletHost::new", "WasmTappletHost::from_bytes"}

\* C16: a load of an artifact that cannot be read, is not a valid module,
\* cannot be instantiated, or is a script with a syntax or top-level error
\* returns the error of that stage, with a message that is not empty, and
\* leaves no host; a host that exists was loaded from a good artifact, and
\* only a host that exists is run.
C16_LoadFailsClosed ==
    /\ (call.host = "load" /\ BadArtifact(call.args.s)) =>
          /\ ~result.ok
          /\ result.kind = LoadErrorKind(call.args.s)
          /\ result.msg # "" /\ Display(result) # ""
          /\ IF call.method \in WasmLoaders
             THEN loaded.wasm = "" /\ wconfig = NoConfig
             ELSE loaded.lua = "" /\ lconfig = NoConfig /\ lglobals = <<>>
    /\ (call.host = "load" /\ result.ok) => ~BadArtifact(call.args.s)
    /\ loaded.wasm \in {"", "module"}
    /\ loaded.lua \in {"", "script"}
    /\ call.host = "wasm" => loaded.wasm = "module"
    /\ call.host = "lua" => loaded.lua = "script"

\* the four bytes of the magic number were refused by from_bytes
C16_Witness ==
    /\ call = [host |-> "load", method |-> "WasmTappletHost::from_bytes",
               args |-> JString("magic")]
    /\ result = Err("WasmCompileError", "Validation error: unexpected end-of-file")
    /\ loaded.wasm = ""

\* a step of a run: its start, or a step of the script or of a capability
RunStep == call'.host \in {"wasm", "lua"} /\ (call.host = "none" \/ lpc # "idle")

\* C17: no step of a run, on either host, returning a value or an error,
\* changes the host's manifest, and config() of a host that exists is the
\* manifest the host was constructed with, api.methods included.
C17_ManifestUnchanged ==
    /\ [][RunStep => (wconfig' = wconfig /\ lconfig' = lconfig)]_vars
    /\ [](loaded.wasm # "" =>
            /\ config(wconfig) = WasmConfig
            /\ config(wconfig).api.methods = WasmConfig.api.methods)
    /\ [](loaded.lua # "" =>
            /\ config(lconfig) = LuaConfig
            /\ config(lconfig).api.methods = LuaConfig.api.methods)

\* the second run of the scripting host has returned an error and config()
\* is still the manifest given to the constructor
C17_Witness ==
    /\ call.host = "lua" /\ lgen = 2 /\ lpc = "idle"
    /\ ResultKind = "LuaExecutionError"
    /\ config(lconfig) = LuaConfig

\* the thread of the run is inside a capability function, and there it is
\* waiting for an operation of the handle
InCapability == lpc = "capability"
Suspended == InCapability /\ cframe.pc = "await"

\* C18: the compiled module is instantiated with no imports, so the module
\* of a compiled host imports nothing; during a compiled run no capability
\* is registered, called, started or completed, no operation is in flight
\* and the run is never inside a capability function; a run is suspended
\* on an operation only inside a capability function that a script
\* function of the scripting host called.
C18_CompiledBackendIsolated ==
    /\ Imports = {}
    /\ loaded.wasm # "" => Required(loaded.wasm) = {}
    /\ call.host = "wasm" =>
          /\ events = <<>> /\ inflight = <<>>
          /\ ~InCapability /\ cframe = NoClosure
          /\ \A i \in 1..Len(trace) : trace[i] \notin {"create_function", "globals.set"}
    /\ (InCapability \/ inflight # <<>>) =>
          /\ call.host = "lua" /\ invoked # <<>>
          /\ IsCall(ScriptCode[invoked[1].fn][lframe.ip])
          /\ events # <<>> /\ events[1].ev = "issue"
    /\ Suspended => inflight # <<>>

\* a compiled run has returned a value on a system whose scripting host
\* has appended data through its capability
C18_Witness ==
    /\ call.host = "wasm" /\ result.ok /\ invoked # <<>>
    /\ lstore # <<>>
    /\ events = <<>>

\* C19: the script function is called with exactly one argument, the whole
\* args value in its native form: a List or a Map is one table in the first
\* parameter, and a function that returns its parameter returns that table.
\* run("greet", "World") with `"Hello, " .. name` returns "Hello, World".
C19_OneNativeArgument ==
    (call.host = "lua" /\ invoked # <<>>) =>
        /\ Len(invoked[1].args) = 1
        /\ Ok(invoked[1].args[1]) = json_to_lua_value(call.args)
        /\ call.args.t \in {"array", "object"} => invoked[1].args[1].t = "table"
        /\ lpc = "script" => lframe.arg = ToLua(invoked[1].args[1])
        /\ (call.method = "echo" /\ lpc = "idle" /\ invoked[1].args[1].t = "table") =>
              invoked[1].ret = Ok(invoked[1].args[1])
        /\ (call.method = "greet" /\ call.args = JString("World") /\ lpc = "idle") =>
              result = Ok(JString("Hello, World"))

\* echo was given a list of two items as one table and has returned
C19_Witness ==
    /\ call.host = "lua" /\ call.method = "echo" /\ call.args.t = "array"
    /\ lpc = "idle" /\ result.ok
    /\ invoked[1].args[1].t = "table"
    /\ DOMAIN invoked[1].args[1].ik = {1, 2}

\* the directory of the registry's repository in the cache
RepoDir == sanitize_repo_name(registry.git_url)

\* the most recent call on the registry found no such directory
AbsentBefore == RepoDir \notin DOMAIN rcall.before.repos

\* the most recent call on the registry performed the operation
Did(op) == \E i \in 1..Len(rcall.ops) : rcall.ops[i] = op

\* the registry holds the manifests of the files checked out in the cache
HoldsCachedManifests ==
    /\ RepoDir \in DOMAIN disk.repos
    /\ registry.is_loaded
    /\ registry.tapplets = parse_tapplets_from_repo(disk.repos[RepoDir])
    /\ registry.current_revision = Some(disk.repos[RepoDir].head)
    /\ rcall.ops[Len(rcall.ops)] = "parse"

\* C20: load does not clone, fetch, check out or create a directory and
\* leaves the file system as it was; it returns an error, having done
\* nothing, when the repository's directory is not in the cache, and when
\* it succeeds the registry holds the manifests of the cached files.
\* fetch clones, and does not open or fetch, when the directory is not
\* there; otherwise it opens the repository and fetches, and does not
\* clone; when it succeeds the registry holds the manifests of the files
\* then in the cache.
C20_LoadReadsFetchUpdates ==
    /\ rcall.op = "load" =>
          /\ \A op \in {"clone", "fetch", "checkout", "create_dir_all"} : ~Did(op)
          /\ disk = rcall.before
          /\ AbsentBefore => ~rcall.res.ok /\ rcall.ops = <<>>
          /\ rcall.res.ok => HoldsCachedManifests /\ ~rcall.res.val.was_cloned
    /\ rcall.op = "fetch" =>
          /\ AbsentBefore => Did("clone") /\ ~Did("open") /\ ~Did("fetch")
          /\ ~AbsentBefore =>
                /\ ~Did("clone") /\ Did("open")
                /\ rcall.before.repos[RepoDir].git => Did("fetch")
          /\ rcall.res.ok => HoldsCachedManifests /\ rcall.res.val.was_cloned = AbsentBefore
          /\ disk.cache

\* load has returned an error: the cache directory holds no repository of
\* that name, and still does not
C20_Witness ==
    /\ rcall.op = "load" /\ ~rcall.res.ok
    /\ rcall.before.cache /\ AbsentBefore
    /\ RepoDir \notin DOMAIN disk.repos
    /\ remote.up /\ remote.head > 0

\* the most recent call on the registry was a load or a fetch, a search or
\* a listing
Refreshed == rcall.op \in {"load", "fetch"}
Queried == rcall.op \in {"search", "tapplets_and_dirs"}

\* C21: search and tapplets_and_dirs return an error exactly when no load
\* or fetch of the registry has succeeded yet; is_loaded is false after
\* new, is true exactly when a load or fetch has succeeded, becomes true
\* only in a load or fetch that returns Ok and never becomes false again;
\* while it is true current_revision is a commit hash.
C21_LoadedFlag ==
    /\ [](Queried => (~rcall.res.ok <=> ~succeeded))
    /\ [](rcall.op = "none" => ~registry.is_loaded)
    /\ [](registry.is_loaded <=> succeeded)
    /\ [](registry.is_loaded =>
            /\ registry.current_revision # None
            /\ registry.current_revision.v \in 1..(MaxCommits + 1))
    /\ [][registry.is_loaded => registry'.is_loaded]_vars
    /\ [][(~registry.is_loaded /\ registry'.is_loaded) => (Refreshed' /\ rcall'.res.ok)]_vars

\* a search on a registry that has never been loaded, over a cache
\* directory that exists, has returned an error
C21_Witness ==
    /\ rcall.op = "search" /\ ~rcall.res.ok
    /\ ~registry.is_loaded
    /\ disk.cache

\* C22: a load or fetch that returns an error leaves current_revision,
\* tapplets and is_loaded as they were before the call; a registry that
\* was loaded is still loaded then, and a search for the empty string
\* returns its previous list of tapplets.
C22_FailureKeepsRegistry ==
    /\ [][(Refreshed' /\ ~rcall'.res.ok) => registry' = registry]_vars
    /\ []((Refreshed /\ ~rcall.res.ok) =>
            /\ registry = rcall.was
            /\ rcall.was.is_loaded =>
                  /\ search(registry, <<>>) = Ok(rcall.was.tapplets)
                  /\ tapplets_and_dirs(registry).ok)

\* a fetch has failed on a registry that holds two tapplets of an earlier
\* commit
C22_Witness ==
    /\ rcall.op = "fetch" /\ ~rcall.res.ok
    /\ registry.is_loaded /\ Len(registry.tapplets) = 2
    /\ registry = rcall.was

\* a scripting run has returned MethodNotFound or InvalidArguments
Rejected == call.host = "lua" /\ ResultKind \in {"MethodNotFound", "InvalidArguments"}

\* C23: a scripting run that returns MethodNotFound or InvalidArguments
\* has not called the script function, has not created or registered a
\* capability function and has started no capability operation; the step
\* leaves the interpreter's globals, the handle's data and everything but
\* the record of the call as they were, so that once the result is dropped
\* the system is in the state it was in before the call.
C23_RejectedRunNoEffect ==
    /\ [](Rejected =>
            /\ invoked = <<>> /\ events = <<>> /\ inflight = <<>>
            /\ lpc = "idle"
            /\ \A i \in 1..Len(trace) :
                  trace[i] \notin {"create_function", "globals.set", "call"})
    /\ [][Rejected' =>
            /\ lglobals' = lglobals /\ lstore' = lstore /\ lgen' = lgen
            /\ UNCHANGED <<hosts, invoked, events, inflight, lpc, lframe, cframe, runtime>>
         ]_vars
    /\ [][(Rejected /\ call'.host = "none") =>
            /\ call' = NoCall /\ result' = Pending /\ trace' = <<>>
            /\ UNCHANGED <<hosts, lglobals, lstore, lgen, invoked, events, inflight,
                           lpc, lframe, cframe, runtime>>
         ]_vars

\* a run was refused its argument on an interpreter that still holds the
\* capability functions and the data of the run before
C23_Witness ==
    /\ Rejected /\ ResultKind = "InvalidArguments"
    /\ lgen = 1 /\ lstore # <<>>
    /\ lglobals["minotari_append_data"] = CapClosure("append_data", 1)

\* the directory name and the artifact name of the tapplet an install is of
InstallName(kind) == IF kind = "wasm" THEN "calc" ELSE "greeter"

InstallArtifact(kind) == IF kind = "wasm" THEN "calc.wasm" ELSE "greeter.lua"

InstallOver == icall.kind # "none"

\* C24: whenever an install of a local folder tapplet returns Ok, the
\* directory of the tapplet in the cache directory holds the artifact
\* of the tapplet and manifest.toml, whatever installs came before; and an
\* install that finds the directory returns Ok and leaves the cache
\* directory as it was.
C24_InstallOkMeansInstalled ==
    /\ (InstallOver /\ icall.res.ok) =>
          /\ InstallName(icall.kind) \in DOMAIN cache
          /\ {InstallArtifact(icall.kind), "manifest.toml"}
                \subseteq DOMAIN cache[InstallName(icall.kind)]
    /\ (InstallOver /\ InstallName(icall.kind) \in DOMAIN icall.before) =>
          /\ icall.res.ok
          /\ cache = icall.before

\* an install that finds the directory returns Ok and leaves the cache
\* directory as it was, and an install that finds no directory and returns
\* Ok has copied the artifact and manifest.toml
C24_ExistingDirectoryOk ==
    /\ (InstallOver /\ InstallName(icall.kind) \in DOMAIN icall.before) =>
          /\ icall.res.ok
          /\ cache = icall.before
    /\ (InstallOver /\ icall.res.ok
          /\ InstallName(icall.kind) \notin DOMAIN icall.before) =>
          {InstallArtifact(icall.kind), "manifest.toml"}
              \subseteq DOMAIN cache[InstallName(icall.kind)]

\* an install returned Ok on a directory that an earlier, failed install
\* left without the artifact
C24_EmptyDirectoryOk ==
    /\ InstallOver /\ icall.res.ok
    /\ InstallName(icall.kind) \in DOMAIN icall.before
    /\ InstallArtifact(icall.kind) \notin DOMAIN cache[InstallName(icall.kind)]

====
